---- MODULE Spec2Model ----
(***************************************************************************)
(* A model of ml_ontogenesis.utilities: GenericParsable (encode, decode,   *)
(* update, equals), ParsableProperty (parse on assignment) and PluginBase  *)
(* (the plugin registry), the latter also with two threads in get_class.   *)
(*                                                                         *)
(* Python values are records tagged by k: none, str, bool, int, enum,      *)
(* fset, dict (m: a function on its keys), list (q: a sequence) and obj    *)
(* (t: the class name, f: the private fields behind its properties).       *)
(* An operation that can raise returns [err, v]: err is "none" or the name *)
(* of the Python exception.                                                *)
(***************************************************************************)
EXTENDS Integers, Sequences, FiniteSets, TLC

VARIABLES
    obj,        \* the object the operations are called on
    out,        \* the last object operation and its outcome
    loaded,     \* the imported plugin modules, in import order
    registry,   \* type(cls)._registered_plugins
    pout,       \* the last plugin call and its outcome
    resolved,   \* what module-qualified construct calls have returned so far
    callers     \* the get_class calls that two threads are in the middle of

vars == <<obj, out, loaded, registry, pout, resolved, callers>>
objectVars == <<obj, out>>
pluginVars == <<loaded, registry, pout, resolved, callers>>

\* ------------------------------------------------------------------------
\* Bounds of the model
\* ------------------------------------------------------------------------
\* Longest sequence-of-nested-object value the inputs hold.
MaxItems == 1

\* ------------------------------------------------------------------------
\* Python values
\* ------------------------------------------------------------------------
NoneV == [k |-> "none"]
StrV(s) == [k |-> "str", s |-> s]
BoolV(b) == [k |-> "bool", b |-> b]
IntV(i) == [k |-> "int", i |-> i]
EnumV(e) == [k |-> "enum", e |-> e]
FSet(s) == [k |-> "fset", s |-> s]
Dict(m) == [k |-> "dict", m |-> m]
List(q) == [k |-> "list", q |-> q]
Obj(t, f) == [k |-> "obj", t |-> t, f |-> f]
\* A pandas.DataFrame
Frame == [k |-> "frame"]
\* A private field that no statement has assigned yet
Unbound == [k |-> "unbound"]

EmptyMap == [x \in {} |-> NoneV]
MapPut(m, key, v) == [x \in (DOMAIN m) \cup {key} |-> IF x = key THEN v ELSE m[x]]
One(key, v) == [x \in {key} |-> v]

Ok(v) == [err |-> "none", v |-> v]
Fail(e) == [err |-> e, v |-> NoneV]

\* Exception propagation.  Bind: r raised, so the caller raises the same;
\* else go on with what r returned.  Keep: the same, for a call on an
\* object, which a raise leaves as it is at that point.
Bind(r, F(_)) == IF r.err # "none" THEN Fail(r.err) ELSE F(r.v)
Keep(r, F(_)) == IF r.err # "none" THEN r ELSE F(r.v)
Raised(e, o) == [err |-> e, v |-> o]

SeqToSet(q) == {q[i] : i \in 1..Len(q)}
InSeq(x, q) == \E i \in 1..Len(q) : q[i] = x

\* properties.generic_parsable_type / generic_parsable_module
generic_parsable_type == "parsable_type"
generic_parsable_module == "parsable_module"

\* ------------------------------------------------------------------------
\* The classes.  GenericParsable, ParametersBase and
\* GenericTorchDatasetParameters are the repository's; Widget and Tagged
\* are client classes written to the subclassing contract of the docstrings
\* (an @enum_setter on an enum attribute, a @parsable_setter on a Parsable
\* attribute, <name>_encode / <name>_decode for a specialized one).  Widget
\* has an attribute in each of the six categories; Tagged has a
\* serializable attribute named like the reserved type key and one with no
\* presence query; Misordered lists in its parsing order a name that it
\* registers in no category; Bare registers a specialized attribute, seal,
\* and defines neither seal_encode nor seal_decode.
\* ------------------------------------------------------------------------
Classes == {"GenericParsable", "ParametersBase", "GenericTorchDatasetParameters",
            "GenericTorchDataset", "Widget", "Tagged", "Misordered", "Bare"}

\* cls.__bases__ chain (single inheritance among the Parsable classes)
Base(t) ==
    CASE t = "ParametersBase" -> "GenericParsable"
      [] t = "GenericTorchDatasetParameters" -> "ParametersBase"
      [] t = "GenericTorchDataset" -> "GenericParsable"
      [] t = "Widget" -> "ParametersBase"
      [] t = "Misordered" -> "ParametersBase"
      [] t = "Tagged" -> "GenericParsable"
      [] t = "Bare" -> "GenericParsable"
      [] OTHER -> "object"

RECURSIVE IsSubclass(_, _)
IsSubclass(t, u) ==
    IF t = u THEN TRUE
    ELSE IF t \notin Classes THEN FALSE
    ELSE IsSubclass(Base(t), u)

\* cls.__module__
ModuleOf(t) ==
    CASE t = "GenericParsable" -> "ml_ontogenesis.utilities.parsable"
      [] t = "ParametersBase" -> "ml_ontogenesis.utilities.parameters_base"
      [] t = "GenericTorchDatasetParameters" -> "ml_ontogenesis.datasets.pytorch_dataset_parameters"
      [] t = "GenericTorchDataset" -> "ml_ontogenesis.datasets.pytorch_dataset"
      [] t = "Widget" -> "client.widgets"
      [] t = "Tagged" -> "client.widgets"
      [] t = "Misordered" -> "client.widgets"
      [] t = "Bare" -> "client.widgets"
      [] OTHER -> "builtins"

\* The six category lists as the __init__ chain leaves them, base class first.
serializable_attributes(t) ==
    CASE t = "GenericParsable" -> <<"version">>
      [] t = "ParametersBase" -> <<"version", "debug">>
      [] t = "GenericTorchDatasetParameters" -> <<"version", "debug", "version", "dataset_directory">>
      [] t = "GenericTorchDataset" -> <<"version">>
      [] t = "Widget" -> <<"version", "debug">>
      [] t = "Misordered" -> <<"version", "debug">>
      [] t = "Tagged" -> <<"version", "parsable_type", "label">>
      [] t = "Bare" -> <<"version">>
      [] OTHER -> <<>>

enum_attributes(t) == IF t = "Widget" THEN <<"mode">> ELSE <<>>

parsable_attributes(t) == IF t = "Widget" THEN <<"child">> ELSE <<>>

specialized_attributes(t) ==
    CASE t = "Widget" -> <<"blob">>
      [] t = "Bare" -> <<"seal">>
      [] OTHER -> <<>>

dict_of_parsables(t) == IF t = "Widget" THEN <<"children">> ELSE <<>>

list_of_parsables(t) == IF t = "Widget" THEN <<"items">> ELSE <<>>

desired_order_of_parsing(t) ==
    CASE t = "Widget" -> <<"mode", "debug">>
      [] t = "Misordered" -> <<"debug", "ghost">>
      [] OTHER -> <<>>

\* The registered attributes of the class.
Fields(t) ==
    SeqToSet(serializable_attributes(t)) \cup SeqToSet(enum_attributes(t))
      \cup SeqToSet(parsable_attributes(t)) \cup SeqToSet(specialized_attributes(t))
      \cup SeqToSet(dict_of_parsables(t)) \cup SeqToSet(list_of_parsables(t))

\* The properties of the class, registered or not: each keeps its value in
\* a private field.
Attributes(t) ==
    Fields(t) \cup (IF t = "GenericTorchDataset" THEN {"dataset_parameters", "raw_dataset"} ELSE {})

\* hasattr(self, "has_" + property_name): every attribute but Tagged.label
\* has a presence query.
HasQuery(t, name) == ~(t = "Tagged" /\ name = "label")

\* self.has_<name>: "return self._<name> is not None"
has_(o, name) == o.f[name] # NoneV

\* hasattr(self, name + "_encode") / hasattr(self, name + "_decode")
HasEncode(t, name) == t = "Widget" /\ name = "blob"
HasDecode(t, name) == t = "Widget" /\ name = "blob"

\* ------------------------------------------------------------------------
\* Property getters
\* ------------------------------------------------------------------------
\* self.<name>: the getter of an optional attribute raises AttributeError
\* (log_and_raise) while the private field is None; reading a private field
\* that was never assigned raises AttributeError too.
Getter(o, name) ==
    IF o.f[name] = Unbound THEN Fail("AttributeError")
    ELSE IF HasQuery(o.t, name) /\ o.f[name] = NoneV THEN Fail("AttributeError")
    ELSE Ok(o.f[name])

\* self.has_<name> as a call: "return self._<name> is not None"
has_query(o, name) ==
    IF o.f[name] = Unbound THEN Fail("AttributeError")
    ELSE Ok(BoolV(o.f[name] # NoneV))

\* ------------------------------------------------------------------------
\* Encode: GenericParsable.to_dict and its helpers
\* ------------------------------------------------------------------------
RECURSIVE SortedSeq(_)
SortedSeq(S) ==
    IF S = {} THEN <<>>
    ELSE <<IntV(CHOOSE x \in S : \A y \in S : x <= y)>>
           \o SortedSeq(S \ {CHOOSE x \in S : \A y \in S : x <= y})

\* "if isinstance(value, frozenset): value = list(value)" (small integers
\* iterate in increasing order); no value of the model has a tolist().
Flatten(value) == IF value.k = "fset" THEN List(SortedSeq(value.s)) ELSE value

RECURSIVE to_dict(_)

\* One value of serialized_dict / serialized_list: hasattr(value, 'to_dict').
serialized_item(value) == IF value.k = "obj" THEN to_dict(value) ELSE Ok(value)

\* The first failure among the results r of a loop over a dict or a list,
\* else the dict or list of what they returned.
CollectDict(r) ==
    IF \E x \in DOMAIN r : r[x].err # "none"
    THEN Fail(r[CHOOSE x \in DOMAIN r : r[x].err # "none"].err)
    ELSE Ok(Dict([x \in DOMAIN r |-> r[x].v]))

CollectList(r) ==
    IF \E i \in DOMAIN r : r[i].err # "none"
    THEN Fail(r[CHOOSE i \in DOMAIN r : r[i].err # "none" /\ \A j \in 1..(i - 1) : r[j].err = "none"].err)
    ELSE Ok(List([i \in DOMAIN r |-> r[i].v]))

serialized_dict(m) == CollectDict([x \in DOMAIN m |-> serialized_item(m[x])])

serialized_list(q) == CollectList([i \in 1..Len(q) |-> serialized_item(q[i])])

\* Emits unless the attribute has a presence query that answers False.
Emits(o, name) == ~HasQuery(o.t, name) \/ has_(o, name)

\* output[property_name] = <r>, when r did not raise
Emit(output, name, r) == Bind(r, LAMBDA v : Ok(MapPut(output, name, v)))

\* to_dict_serializable without the has_<name> test
to_dict_serializable_unguarded(o, output, name) == Emit(output, name, Ok(Flatten(o.f[name])))

to_dict_serializable(o, output, name) ==
    IF ~Emits(o, name) THEN Ok(output)
    ELSE Emit(output, name, Bind(Getter(o, name), LAMBDA v : Ok(Flatten(v))))

\* self.<name>.name
to_dict_enum(o, output, name) ==
    IF ~Emits(o, name) THEN Ok(output)
    ELSE Emit(output, name,
              Bind(Getter(o, name),
                   LAMBDA v : IF v.k # "enum" THEN Fail("AttributeError") ELSE Ok(StrV(v.e))))

\* self.<name>.to_dict()
to_dict_parsable(o, output, name) ==
    IF ~Emits(o, name) THEN Ok(output)
    ELSE Emit(output, name,
              Bind(Getter(o, name),
                   LAMBDA v : IF v.k # "obj" THEN Fail("AttributeError") ELSE to_dict(v)))

to_dict_dict_of_parsable(o, output, name) ==
    IF ~Emits(o, name) THEN Ok(output)
    ELSE Bind(Getter(o, name),
              LAMBDA v : IF v.k # "dict" THEN Ok(output)
                         ELSE Emit(output, name, serialized_dict(v.m)))

to_dict_list_of_parsable(o, output, name) ==
    IF ~Emits(o, name) THEN Ok(output)
    ELSE Bind(Getter(o, name),
              LAMBDA v : IF v.k # "list" THEN Ok(output)
                         ELSE Emit(output, name, serialized_list(v.q)))

\* Widget.blob_encode: the private integer n is written as the string "n s".
BlobTable == {<<0, "0s">>, <<1, "1s">>}
blob_encode(o) ==
    IF o.f["blob"].k = "int" /\ \E p \in BlobTable : p[1] = o.f["blob"].i
    THEN Ok(StrV((CHOOSE p \in BlobTable : p[1] = o.f["blob"].i)[2]))
    ELSE Fail("AttributeError")

to_dict_specialized(o, output, name) ==
    IF ~HasEncode(o.t, name) THEN Fail("AttributeError")
    ELSE IF ~Emits(o, name) THEN Ok(output)
    ELSE Emit(output, name, blob_encode(o))

\* The attributes with their categories, in the order of the six loops of
\* to_dict and of equals.
Categorized(cat, names) == [i \in 1..Len(names) |-> <<cat, names[i]>>]
Tagged6(t) ==
    Categorized("serializable", serializable_attributes(t))
      \o Categorized("enum", enum_attributes(t))
      \o Categorized("parsable", parsable_attributes(t))
      \o Categorized("dict", dict_of_parsables(t))
      \o Categorized("list", list_of_parsables(t))
      \o Categorized("specialized", specialized_attributes(t))

to_dict_one(o, output, step) ==
    CASE step[1] = "serializable" -> to_dict_serializable(o, output, step[2])
      [] step[1] = "enum" -> to_dict_enum(o, output, step[2])
      [] step[1] = "parsable" -> to_dict_parsable(o, output, step[2])
      [] step[1] = "dict" -> to_dict_dict_of_parsable(o, output, step[2])
      [] step[1] = "list" -> to_dict_list_of_parsable(o, output, step[2])
      [] OTHER -> to_dict_specialized(o, output, step[2])

RECURSIVE to_dict_walk(_, _, _, _)
to_dict_walk(o, steps, i, output) ==
    IF i > Len(steps) THEN Ok(Dict(output))
    ELSE Bind(to_dict_one(o, output, steps[i]),
              LAMBDA m : to_dict_walk(o, steps, i + 1, m))

\* to_dict without "output[properties.generic_parsable_module] = ..."
TypeTag_without_module(o) == One(generic_parsable_type, StrV(o.t))

TypeTag(o) ==
    MapPut(One(generic_parsable_type, StrV(o.t)), generic_parsable_module, StrV(ModuleOf(o.t)))

to_dict(o) == to_dict_walk(o, Tagged6(o.t), 1, TypeTag(o))

\* ------------------------------------------------------------------------
\* Setters, construction and parse on assignment
\* ------------------------------------------------------------------------
\* The enum of Widget.mode:  class Color(Enum): RED = 1; BLUE = 2
ColorMembers == {<<"RED", 1>>, <<"BLUE", 2>>}

\* The member a string names or a number (a bool is an int) is the value of
MembersFor(v) ==
    {p \in ColorMembers :
        \/ v.k = "str" /\ p[1] = v.s
        \/ v.k = "int" /\ p[2] = v.i
        \/ v.k = "bool" /\ p[2] = (IF v.b THEN 1 ELSE 0)}

\* properties.enum_parse for one value that is no list
enum_parse(v) ==
    CASE v.k \in {"enum", "none"} -> Ok(v)
      [] v.k \in {"str", "int", "bool"} /\ MembersFor(v) # {}
           -> Ok(EnumV((CHOOSE p \in MembersFor(v) : TRUE)[1]))
      [] OTHER -> Fail("TypeError")

\* isinstance checks of the underlying setters: "input_value is None or
\* isinstance(input_value, <type>)", else log_and_raise(TypeError).
Accepts(t, name, v) ==
    CASE name \in {"version", "dataset_directory", "parsable_type"} -> v.k \in {"none", "str"}
      [] name = "debug" -> v.k \in {"none", "bool"}
      [] name = "label" -> v.k = "str"
      [] name = "mode" -> v.k \in {"none", "enum"}
      [] name = "child" -> v.k = "none" \/ (v.k = "obj" /\ IsSubclass(v.t, "ParametersBase"))
      [] name = "children" -> v.k \in {"none", "dict"}
      [] name = "items" -> v.k \in {"none", "list"}
      [] name \in {"blob", "seal"} -> v.k \in {"none", "int"}
      [] name = "raw_dataset" -> v.k \in {"none", "frame"}
      [] name = "dataset_parameters"
           -> v.k = "none" \/ (v.k = "obj" /\ IsSubclass(v.t, "GenericTorchDatasetParameters"))
      [] OTHER -> FALSE

RECURSIVE parse(_, _, _)
RECURSIVE from_dict(_, _)

\* parsable_setter without "if isinstance(input_value, dict)": the value
\* goes to the setter as it is
parsable_setter_passthrough(v, class_type) == Ok(v)

\* parsable_setter's wrapper: "if isinstance(input_value, dict): input_value =
\* ParsableProperty.parse(input_value, ...)" with the decorator's defaults
\* and its class_type.
parsable_setter(v, class_type) == IF v.k = "dict" THEN parse(v, FALSE, class_type) ELSE Ok(v)

\* The class_type of the coercing setters: Widget.child is set through
\* @parsable_setter(), GenericTorchDataset.raw_dataset through
\* @GenericTorchDatasetParameters.static_class_setter()
SetterClass(name) == IF name = "raw_dataset" THEN "GenericTorchDatasetParameters" ELSE "none"

\* What the decorator of the setter hands to the setter proper
Decorated(name, v) ==
    CASE name = "mode" -> enum_parse(v)
      [] name \in {"child", "raw_dataset"} -> parsable_setter(v, SetterClass(name))
      [] OTHER -> Ok(v)

\* The setter proper, given what its decorator made of the value.  On an
\* error the object is as it was.
Store(o, name, dec) ==
    IF dec.err # "none" THEN Raised(dec.err, o)
    ELSE IF ~Accepts(o.t, name, dec.v) THEN Raised("TypeError", o)
    ELSE Ok(Obj(o.t, [o.f EXCEPT ![name] = dec.v]))

\* self.<name> = v: the decorator of the setter, then the setter itself.
Setter(o, name, v) == Store(o, name, Decorated(name, v))

\* kwargs.get(name, default) of the __init__ chain
InitDefault(t, name) ==
    CASE name = "debug" -> BoolV(FALSE)
      [] name = "label" -> StrV("a")
      [] OTHER -> NoneV

KwargsGet(kwargs, t, name) == IF name \in DOMAIN kwargs THEN kwargs[name] ELSE InitDefault(t, name)

\* The assignments of the __init__ chain, base class first.
InitOrder(t) ==
    CASE t = "GenericParsable" -> <<"version">>
      [] t = "ParametersBase" -> <<"version", "debug">>
      [] t = "GenericTorchDatasetParameters" -> <<"version", "debug", "version", "dataset_directory">>
      [] t = "GenericTorchDataset" -> <<"version", "raw_dataset">>
      [] t = "Widget" -> <<"version", "debug", "mode", "child", "children", "items", "blob">>
      [] t = "Misordered" -> <<"version", "debug">>
      [] t = "Tagged" -> <<"version", "parsable_type", "label">>
      [] t = "Bare" -> <<"version", "seal">>
      [] OTHER -> <<>>

RECURSIVE InitWalk(_, _, _, _)
InitWalk(o, names, i, kwargs) ==
    IF i > Len(names) THEN Ok(o)
    ELSE Bind(Setter(o, names[i], KwargsGet(kwargs, o.t, names[i])),
              LAMBDA o2 : InitWalk(o2, names, i + 1, kwargs))

\* class_type(**kwargs): the private fields come to exist as __init__
\* assigns them
Construct(t, kwargs) == InitWalk(Obj(t, [n \in Attributes(t) |-> Unbound]), InitOrder(t), 1, kwargs)

\* importlib.import_module(module_str); getattr(imported_module, class_str)
ImportClass(module_str, class_str) ==
    IF module_str.k = "str" /\ class_str.k = "str"
       /\ class_str.s \in Classes /\ ModuleOf(class_str.s) = module_str.s
    THEN Ok(class_str.s)
    ELSE Fail("ImportError")

\* ParsableProperty.get_class_and_module_strings, with no parsable_module
\* and no parsable_class: the two strings, each None when its key is absent.
get_class_and_module_strings(input_value, throw) ==
    IF throw /\ ~({generic_parsable_module, generic_parsable_type} \subseteq DOMAIN input_value.m)
    THEN [err |-> "RuntimeError", cls |-> NoneV, mod |-> NoneV]
    ELSE [err |-> "none",
          cls |-> IF generic_parsable_type \in DOMAIN input_value.m
                  THEN input_value.m[generic_parsable_type] ELSE NoneV,
          mod |-> IF generic_parsable_module \in DOMAIN input_value.m
                  THEN input_value.m[generic_parsable_module] ELSE NoneV]

\* The try / except around the import in get_class_type
LoadedOrNone(c, throw) ==
    IF c.err = "none" THEN Ok(c.v)
    ELSE IF throw THEN Fail("RuntimeError")
    ELSE Ok("none")

ClassOfStrings(s, throw) ==
    IF s.err # "none" THEN Fail(s.err)
    ELSE IF s.mod = NoneV \/ s.cls = NoneV THEN Ok("none")
    ELSE LoadedOrNone(ImportClass(s.mod, s.cls), throw)

\* ParsableProperty.get_class_type: the class, or "none"
get_class_type(input_value, throw, class_type) ==
    IF class_type # "none" THEN Ok(class_type)
    ELSE ClassOfStrings(get_class_and_module_strings(input_value, throw), throw)

\* ------------------------------------------------------------------------
\* The plugin classes
\* ------------------------------------------------------------------------
\* Two plugin roots (direct subclasses of PluginBase, defined at start) and
\* the classes that three importable modules define, in the order of their
\* class statements.  pkg.mod and pkg.other both define a Foo under RootA;
\* Baz is a plain class, no subclass of PluginBase.  Bar's __init__ is
\* (self, x, **kwargs); Kid, a subclass of Bar, has (self, y, **kwargs) and
\* passes an x of its own to Bar's; every other __init__ is PluginBase's
\* (self, *args, **kwargs).
Roots == {"RootA", "RootB"}

Modules == {"pkg.mod", "pkg.other", "pkg.b"}

ModuleClasses(m) ==
    CASE m = "pkg.mod" -> <<"pkg.mod.Foo", "pkg.mod.Sub">>
      [] m = "pkg.other" -> <<"pkg.other.Foo", "pkg.other.Zed">>
      [] m = "pkg.b" -> <<"pkg.b.Bar", "pkg.b.Kid", "pkg.b.Baz">>
      [] OTHER -> <<>>

\* cls.__name__
NameOf(c) ==
    CASE c \in {"pkg.mod.Foo", "pkg.other.Foo"} -> "Foo"
      [] c = "pkg.mod.Sub" -> "Sub"
      [] c = "pkg.other.Zed" -> "Zed"
      [] c = "pkg.b.Bar" -> "Bar"
      [] c = "pkg.b.Kid" -> "Kid"
      [] c = "pkg.b.Baz" -> "Baz"
      [] OTHER -> c

\* cls.__bases__[0]
Parent(c) ==
    CASE c \in {"pkg.mod.Foo", "pkg.other.Foo", "pkg.other.Zed"} -> "RootA"
      [] c = "pkg.mod.Sub" -> "pkg.mod.Foo"
      [] c = "pkg.b.Bar" -> "RootB"
      [] c = "pkg.b.Kid" -> "pkg.b.Bar"
      [] c \in Roots -> "PluginBase"
      [] OTHER -> "object"

RECURSIVE IsPluginSubclass(_, _)
IsPluginSubclass(c, root) ==
    IF c = root THEN TRUE
    ELSE IF c \in {"object", "PluginBase"} THEN FALSE
    ELSE IsPluginSubclass(Parent(c), root)

\* The parameters of class_type.__init__ that have no default and are
\* neither self nor *args nor **kwargs
signature_required(class_type) ==
    CASE class_type = "pkg.b.Bar" -> {"x"}
      [] class_type = "pkg.b.Kid" -> {"y"}
      [] OTHER -> {}

\* class_type.__bases__: one base class each
bases(class_type) == IF class_type \in Classes THEN Base(class_type) ELSE Parent(class_type)

\* required_parameter_for_class_init: the union over the class and its bases
RECURSIVE required_parameter_for_class_init(_)
required_parameter_for_class_init(class_type) ==
    IF class_type \in {"object", "PluginBase"} THEN {}
    ELSE signature_required(class_type) \cup required_parameter_for_class_init(bases(class_type))

\* get_required_arguments_for_init, then class_type(**required_args)
NewInstance(t, input_value) ==
    IF required_parameter_for_class_init(t) \subseteq DOMAIN input_value.m
    THEN Construct(t, [n \in required_parameter_for_class_init(t) |-> input_value.m[n]])
    ELSE Fail("RuntimeError")

\* The try / except of parse around construction and from_dict
Hydrated(done, input_value, throw) ==
    IF done.err = "none" THEN Ok(done.v)
    ELSE IF throw THEN Fail("RuntimeError")
    ELSE Ok(input_value)

ParseAs(c, input_value, throw) ==
    IF c.err # "none" THEN Fail(c.err)
    ELSE IF c.v = "none" THEN Ok(input_value)
    ELSE Hydrated(Bind(NewInstance(c.v, input_value), LAMBDA inst : from_dict(inst, input_value)),
                  input_value, throw)

\* ParsableProperty.parse: an instance, or the input as it was
parse(input_value, throw, class_type) ==
    ParseAs(get_class_type(input_value, throw, class_type), input_value, throw)

\* ------------------------------------------------------------------------
\* Parsing order
\* ------------------------------------------------------------------------
collect_all_attributes(t) ==
    serializable_attributes(t) \o enum_attributes(t) \o parsable_attributes(t)
      \o specialized_attributes(t) \o dict_of_parsables(t) \o list_of_parsables(t)

\* split_ordered_and_unordered_attributes without "if not np.all(exist)"
split_unvalidated(t) ==
    [err |-> "none", ordered |-> desired_order_of_parsing(t),
     unordered |-> SelectSeq(collect_all_attributes(t),
                            LAMBDA x : ~InSeq(x, desired_order_of_parsing(t))),
     missing |-> <<>>]

\* The ordered and the unordered attributes, or ValueError with the
\* missing_attributes its message shows
split_ordered_and_unordered_attributes(t) ==
    IF Len(desired_order_of_parsing(t)) = 0
    THEN [err |-> "none", ordered |-> <<>>, unordered |-> collect_all_attributes(t),
          missing |-> <<>>]
    ELSE IF \E i \in 1..Len(desired_order_of_parsing(t)) :
                ~InSeq(desired_order_of_parsing(t)[i], collect_all_attributes(t))
    THEN [err |-> "ValueError", ordered |-> <<>>, unordered |-> <<>>,
          missing |-> SelectSeq(desired_order_of_parsing(t),
                                LAMBDA x : ~InSeq(x, collect_all_attributes(t)))]
    ELSE [err |-> "none", ordered |-> desired_order_of_parsing(t),
          unordered |-> SelectSeq(collect_all_attributes(t),
                                 LAMBDA x : ~InSeq(x, desired_order_of_parsing(t))),
          missing |-> <<>>]

\* The walk with the unordered attributes first
walk_order_reversed(s) == s.unordered \o s.ordered

\* "for property_name in (*ordered_attributes, *unordered_attributes)"
walk_order(s) == s.ordered \o s.unordered

\* "ordered_attributes, unordered_attributes = self.split_...()" and the walk
\* over (*ordered_attributes, *unordered_attributes)
Walked(s, o, F(_)) == IF s.err # "none" THEN Raised(s.err, o) ELSE F(walk_order(s))

\* ------------------------------------------------------------------------
\* Decode: GenericParsable.from_dict and its helpers
\* ------------------------------------------------------------------------
\* properties.can_set: every attribute of the model's classes has a setter.
can_set(t, name) == TRUE

\* One value of parsed_dict / parsed_list
parsed_item(value) ==
    IF value.k = "dict" /\ generic_parsable_type \in DOMAIN value.m
    THEN parse(value, TRUE, "none")
    ELSE Ok(value)

parsed_dict(m) == CollectDict([x \in DOMAIN m |-> parsed_item(m[x])])

parsed_list(q) == CollectList([i \in 1..Len(q) |-> parsed_item(q[i])])

\* self.__setattr__(property_name, <p>), when computing p did not raise
SetParsed(o, name, p) == IF p.err # "none" THEN Raised(p.err, o) ELSE Setter(o, name, p.v)

\* from_dict_serializable with the key test negated
from_dict_serializable_absent_key(o, input_value, name) ==
    IF name \notin DOMAIN input_value.m /\ can_set(o.t, name)
    THEN Setter(o, name, NoneV)
    ELSE Ok(o)

from_dict_serializable(o, input_value, name) ==
    IF name \in DOMAIN input_value.m /\ can_set(o.t, name)
    THEN Setter(o, name, input_value.m[name])
    ELSE Ok(o)

from_dict_enum(o, input_value, name) == from_dict_serializable(o, input_value, name)

from_dict_parsable(o, input_value, name) == from_dict_serializable(o, input_value, name)

from_dict_dict_of_parsable(o, input_value, name) ==
    IF name \in DOMAIN input_value.m /\ can_set(o.t, name)
    THEN SetParsed(o, name, IF input_value.m[name].k = "dict"
                            THEN parsed_dict(input_value.m[name].m)
                            ELSE Ok(input_value.m[name]))
    ELSE Ok(o)

from_dict_list_of_parsable(o, input_value, name) ==
    IF name \in DOMAIN input_value.m /\ can_set(o.t, name)
    THEN SetParsed(o, name, IF input_value.m[name].k = "list"
                            THEN parsed_list(input_value.m[name].q)
                            ELSE Ok(input_value.m[name]))
    ELSE Ok(o)

\* Widget.blob_decode: reads the string that blob_encode writes and stores
\* the integer; anything else raises ValueError.
blob_decode(o, v) ==
    IF v.k = "str" /\ \E p \in BlobTable : p[2] = v.s
    THEN Ok(Obj(o.t, [o.f EXCEPT !["blob"] = IntV((CHOOSE p \in BlobTable : p[2] = v.s)[1])]))
    ELSE Raised("ValueError", o)

from_dict_specialized(o, input_value, name) ==
    IF name \notin DOMAIN input_value.m THEN Ok(o)
    ELSE IF HasDecode(o.t, name) THEN blob_decode(o, input_value.m[name])
    ELSE Raised("AttributeError", o)

\* The if / elif chain of from_dict for one property name
from_dict_one(o, input_value, name) ==
    CASE InSeq(name, serializable_attributes(o.t)) -> from_dict_serializable(o, input_value, name)
      [] InSeq(name, parsable_attributes(o.t)) -> from_dict_parsable(o, input_value, name)
      [] InSeq(name, enum_attributes(o.t)) -> from_dict_enum(o, input_value, name)
      [] InSeq(name, dict_of_parsables(o.t)) -> from_dict_dict_of_parsable(o, input_value, name)
      [] InSeq(name, list_of_parsables(o.t)) -> from_dict_list_of_parsable(o, input_value, name)
      [] InSeq(name, specialized_attributes(o.t)) -> from_dict_specialized(o, input_value, name)
      [] OTHER -> Raised("RuntimeError", o)

RECURSIVE from_dict_walk(_, _, _, _)
from_dict_walk(o, names, i, input_value) ==
    IF i > Len(names) THEN Ok(o)
    ELSE Keep(from_dict_one(o, input_value, names[i]),
              LAMBDA o2 : from_dict_walk(o2, names, i + 1, input_value))

\* The names from_dict has assigned, in the order of the assignments, when it
\* returns or raises: a helper assigns when the key is in the map and the
\* property can be set, and a helper that raises has assigned nothing
RECURSIVE from_dict_trace(_, _, _, _, _)
from_dict_traced(r, names, i, input_value, tr) ==
    IF r.err # "none" THEN tr
    ELSE from_dict_trace(r.v, names, i + 1, input_value,
                         IF names[i] \in DOMAIN input_value.m /\ can_set(r.v.t, names[i])
                         THEN Append(tr, names[i]) ELSE tr)

from_dict_trace(o, names, i, input_value, tr) ==
    IF i > Len(names) THEN tr
    ELSE from_dict_traced(from_dict_one(o, input_value, names[i]), names, i, input_value, tr)

from_dict_assignments(s, o, input_value) ==
    IF s.err # "none" THEN <<>> ELSE from_dict_trace(o, walk_order(s), 1, input_value, <<>>)

\* from_dict as a transaction: a call that raises leaves the object as it was
Restored(r, o) == IF r.err # "none" THEN Raised(r.err, o) ELSE r

from_dict_atomic(o, input_value) ==
    Walked(split_ordered_and_unordered_attributes(o.t), o,
           LAMBDA names : Restored(from_dict_walk(o, names, 1, input_value), o))

\* self.from_dict(input_value): the object as the call leaves it, and the
\* exception that ended it, if any
from_dict(o, input_value) ==
    Walked(split_ordered_and_unordered_attributes(o.t), o,
           LAMBDA names : from_dict_walk(o, names, 1, input_value))

\* ------------------------------------------------------------------------
\* Update: GenericParsable.update and its helpers
\* ------------------------------------------------------------------------
\* No class of the model defines an update_<name> method, so update_property
\* goes to its elif.
\* update_property taking its last branch, the debug record, for a property
\* that can be set
update_property_unset(o, v, name) == Ok(o)

update_property(o, v, name) == IF can_set(o.t, name) THEN Setter(o, name, v) ELSE Ok(o)

UpdateParsed(o, name, p) == IF p.err # "none" THEN Raised(p.err, o) ELSE update_property(o, p.v, name)

\* The skip test with the presence query negated
Skips_when_absent(o, only_if_missing, name) == only_if_missing /\ HasQuery(o.t, name) /\ ~has_(o, name)

\* "if only_if_missing: if hasattr(self, 'has_' + name): if self.has_<name>: return"
Skips(o, only_if_missing, name) == only_if_missing /\ HasQuery(o.t, name) /\ has_(o, name)

update_serializable_property(o, only_if_missing, input_value, name) ==
    IF Skips(o, only_if_missing, name) THEN Ok(o)
    ELSE IF name \in DOMAIN input_value.m THEN update_property(o, input_value.m[name], name)
    ELSE Ok(o)

update_enum_property(o, only_if_missing, input_value, name) ==
    update_serializable_property(o, only_if_missing, input_value, name)

update_parsable_property(o, only_if_missing, input_value, name) ==
    update_serializable_property(o, only_if_missing, input_value, name)

\* update_dict_of_parsable_property working key by key: the keys of the new
\* map are put into the old one, all of them or those it lacks
PerKey(old, new, only_if_missing) ==
    IF old.k # "dict" \/ new.k # "dict" THEN new
    ELSE Dict([x \in (DOMAIN old.m) \cup (DOMAIN new.m) |->
                 IF x \in DOMAIN new.m /\ ~(only_if_missing /\ x \in DOMAIN old.m)
                 THEN new.m[x] ELSE old.m[x]])

update_dict_of_parsable_property_per_key(o, only_if_missing, input_value, name) ==
    IF name \in DOMAIN input_value.m
    THEN UpdateParsed(o, name,
                      Bind(IF input_value.m[name].k = "dict"
                           THEN parsed_dict(input_value.m[name].m)
                           ELSE Ok(input_value.m[name]),
                           LAMBDA c : Ok(PerKey(o.f[name], c, only_if_missing))))
    ELSE Ok(o)

update_dict_of_parsable_property(o, only_if_missing, input_value, name) ==
    IF Skips(o, only_if_missing, name) THEN Ok(o)
    ELSE IF name \in DOMAIN input_value.m
    THEN UpdateParsed(o, name, IF input_value.m[name].k = "dict"
                               THEN parsed_dict(input_value.m[name].m)
                               ELSE Ok(input_value.m[name]))
    ELSE Ok(o)

update_list_of_parsable_property(o, only_if_missing, input_value, name) ==
    IF Skips(o, only_if_missing, name) THEN Ok(o)
    ELSE IF name \in DOMAIN input_value.m
    THEN UpdateParsed(o, name, IF input_value.m[name].k = "list"
                               THEN parsed_list(input_value.m[name].q)
                               ELSE Ok(input_value.m[name]))
    ELSE Ok(o)

update_specialized_property(o, only_if_missing, input_value, name) ==
    IF ~HasDecode(o.t, name) THEN Raised("AttributeError", o)
    ELSE IF Skips(o, only_if_missing, name) THEN Ok(o)
    ELSE IF name \in DOMAIN input_value.m THEN blob_decode(o, input_value.m[name])
    ELSE Ok(o)

update_one(o, only_if_missing, input_value, name) ==
    CASE InSeq(name, serializable_attributes(o.t))
           -> update_serializable_property(o, only_if_missing, input_value, name)
      [] InSeq(name, parsable_attributes(o.t))
           -> update_parsable_property(o, only_if_missing, input_value, name)
      [] InSeq(name, enum_attributes(o.t))
           -> update_enum_property(o, only_if_missing, input_value, name)
      [] InSeq(name, dict_of_parsables(o.t))
           -> update_dict_of_parsable_property(o, only_if_missing, input_value, name)
      [] InSeq(name, list_of_parsables(o.t))
           -> update_list_of_parsable_property(o, only_if_missing, input_value, name)
      [] InSeq(name, specialized_attributes(o.t))
           -> update_specialized_property(o, only_if_missing, input_value, name)
      [] OTHER -> Raised("RuntimeError", o)

RECURSIVE update_walk(_, _, _, _, _)
update_walk(o, names, i, only_if_missing, input_value) ==
    IF i > Len(names) THEN Ok(o)
    ELSE Keep(update_one(o, only_if_missing, input_value, names[i]),
              LAMBDA o2 : update_walk(o2, names, i + 1, only_if_missing, input_value))

\* The names update has assigned, in the order of the assignments: a helper
\* assigns when it does not skip, the key is in the map and the property can
\* be set
RECURSIVE update_trace(_, _, _, _, _, _)
update_traced(r, o, names, i, only_if_missing, input_value, tr) ==
    IF r.err # "none" THEN tr
    ELSE update_trace(r.v, names, i + 1, only_if_missing, input_value,
                      IF ~Skips(o, only_if_missing, names[i]) /\ names[i] \in DOMAIN input_value.m
                         /\ can_set(o.t, names[i])
                      THEN Append(tr, names[i]) ELSE tr)

update_trace(o, names, i, only_if_missing, input_value, tr) ==
    IF i > Len(names) THEN tr
    ELSE update_traced(update_one(o, only_if_missing, input_value, names[i]), o, names, i,
                       only_if_missing, input_value, tr)

update_assignments(s, o, only_if_missing, input_value) ==
    IF s.err # "none" THEN <<>>
    ELSE update_trace(o, walk_order(s), 1, only_if_missing, input_value, <<>>)

update(o, only_if_missing, input_value) ==
    Walked(split_ordered_and_unordered_attributes(o.t), o,
           LAMBDA names : update_walk(o, names, 1, only_if_missing, input_value))

\* ------------------------------------------------------------------------
\* Equality: GenericParsable.equals
\* ------------------------------------------------------------------------
\* type(value)
TypeOf(v) == IF v.k = "obj" THEN v.t ELSE v.k

\* (self_value, other_value, equals): eq is "true", "false" or "none"
equals_property_name(self, other, name) ==
    IF HasQuery(self.t, name) /\ ~has_(self, name) /\ ~has_(other, name)
    THEN [sv |-> NoneV, ov |-> NoneV, eq |-> "true"]
    ELSE IF HasQuery(self.t, name) /\ has_(self, name) # has_(other, name)
    THEN [sv |-> NoneV, ov |-> NoneV, eq |-> "false"]
    ELSE IF TypeOf(self.f[name]) # TypeOf(other.f[name])
    THEN [sv |-> NoneV, ov |-> NoneV, eq |-> "false"]
    ELSE [sv |-> self.f[name], ov |-> other.f[name], eq |-> "none"]

\* The name equal in parsable.py: the module imports io, loghandler and
\* properties from its package and binds no equal (the package __init__
\* imports equal from .equality into its own namespace only), so the call
\* raises NameError.
equal(self_value, other_value) == Fail("NameError")

\* "if equals: continue / elif equals is False or not equal(...): return False"
\* for one property; rest is the remainder of the loops.
equals_step(r, rest) ==
    IF r.eq = "true" THEN rest
    ELSE IF r.eq = "false" THEN Ok(BoolV(FALSE))
    ELSE Bind(equal(r.sv, r.ov), LAMBDA b : IF b = BoolV(TRUE) THEN rest ELSE Ok(BoolV(FALSE)))

RECURSIVE equals_walk(_, _, _, _)
equals_walk(self, other, steps, i) ==
    IF i > Len(steps) THEN Ok(BoolV(TRUE))
    ELSE equals_step(equals_property_name(self, other, steps[i][2]),
                     equals_walk(self, other, steps, i + 1))

\* equals with the answer of the type test inverted
equals_type_blind(self, other) ==
    IF self.t # other.t THEN Ok(BoolV(TRUE))
    ELSE equals_walk(self, other, Tagged6(self.t), 1)

equals(self, other) ==
    IF self.t # other.t THEN Ok(BoolV(FALSE))
    ELSE equals_walk(self, other, Tagged6(self.t), 1)

\* ------------------------------------------------------------------------
\* The inputs the operations are called with
\* ------------------------------------------------------------------------
\* ParametersBase() as constructed, and one with a version and debug cleared
NestedA == Obj("ParametersBase", [n \in {"version", "debug"} |->
                                    IF n = "debug" THEN BoolV(FALSE) ELSE NoneV])
NestedB == Obj("ParametersBase", [n \in {"version", "debug"} |->
                                    IF n = "version" THEN StrV("v1") ELSE NoneV])

\* The lists of one to MaxItems nested objects
Lists == {List([i \in 1..n |-> NestedA]) : n \in 1..MaxItems}

\* A tagged map naming a module that cannot be imported
Unresolvable ==
    Dict(MapPut(One(generic_parsable_type, StrV("Nope")), generic_parsable_module, StrV("no.such")))

\* A tagged map whose type key holds None
NullTagged ==
    Dict(MapPut(One(generic_parsable_type, NoneV), generic_parsable_module,
                StrV("ml_ontogenesis.utilities.parameters_base")))

\* GenericTorchDatasetParameters(version='v1')
ParametersA == Construct("GenericTorchDatasetParameters", One("version", StrV("v1"))).v

\* Values assigned to an attribute
AssignValues(name) ==
    CASE name = "version" -> {NoneV, StrV("v1"), IntV(3)}
      [] name = "debug" -> {NoneV, BoolV(FALSE), BoolV(TRUE)}
      [] name = "dataset_directory" -> {NoneV, StrV("/d")}
      [] name = "parsable_type" -> {NoneV, StrV("x")}
      [] name = "label" -> {StrV("a"), StrV("b")}
      [] name = "mode" -> {NoneV, StrV("BLUE"), IntV(1), StrV("GREEN")}
      [] name = "child" -> {NoneV, NestedB, to_dict(NestedA).v, Dict(EmptyMap)}
      [] name = "children" -> {NoneV, Dict(One("a", NestedB))}
      [] name = "items" -> {NoneV} \cup Lists
      [] name = "blob" -> {NoneV, IntV(1)}
      [] name = "seal" -> {NoneV, IntV(1)}
      [] name = "raw_dataset" -> {NoneV, Frame, IntV(3), to_dict(ParametersA).v}
      [] name = "dataset_parameters" -> {NoneV, ParametersA, NestedB}
      [] OTHER -> {}

\* Raw values of an attribute in a raw map
RawValues(name) ==
    CASE name = "version" -> {StrV("v1")}
      [] name = "debug" -> {BoolV(TRUE), IntV(3)}
      [] name = "dataset_directory" -> {StrV("/d")}
      [] name = "parsable_type" -> {StrV("x")}
      [] name = "label" -> {StrV("b")}
      [] name = "mode" -> {StrV("BLUE")}
      [] name = "child" -> {to_dict(NestedA).v}
      [] name = "children" -> {Dict(One("b", to_dict(NestedB).v)), Dict(One("a", Unresolvable)),
                               Dict(One("a", NullTagged))}
      [] name = "items" -> {serialized_list(l.q).v : l \in Lists}
                             \cup {List(<<IntV(3), to_dict(NestedB).v>>), List(<<Unresolvable>>)}
      [] name = "blob" -> {StrV("1s"), StrV("zz")}
      [] name = "seal" -> {StrV("1s")}
      [] OTHER -> {}

\* Raw maps: empty, one attribute, a version together with a debug, and the
\* two with a mode, the keys in the order (version, debug, mode) of encode
RawMaps(t) ==
    {EmptyMap}
      \cup {MapPut(MapPut(One("version", StrV("v1")), "debug", BoolV(TRUE)), "mode", StrV("BLUE")) :
               x \in {"mode"} \cap Fields(t)}
      \cup {One(name, v) : <<name, v>> \in {<<n, w>> \in Fields(t) \X UNION {RawValues(n) : n \in Fields(t)} :
                                              w \in RawValues(n)}}
      \cup {MapPut(One("version", StrV("v1")), "debug", v) : v \in RawValues("debug") \cap
                                                                   (IF "debug" \in Fields(t) THEN RawValues("debug") ELSE {})}

\* The two reserved keys of a raw map, holding the values c and m
Tags(c, m) == MapPut(One(generic_parsable_type, c), generic_parsable_module, m)

TagsOf(t) == Tags(StrV(t), StrV(ModuleOf(t)))

\* The maps ParsableProperty.parse is called with: encodings of objects, a
\* map with no tags, one with the type tag only, one whose type tag is None,
\* one naming a module that cannot be imported, one whose debug no setter
\* accepts, and one of a class whose parsing order is invalid
ParseMaps ==
    {to_dict(NestedA).v, to_dict(NestedB).v, Unresolvable, Dict(EmptyMap),
     Dict(One(generic_parsable_type, StrV("ParametersBase"))),
     Dict(Tags(NoneV, StrV(ModuleOf("ParametersBase")))),
     Dict(MapPut(TagsOf("ParametersBase"), "debug", IntV(3))),
     Dict(MapPut(TagsOf("Misordered"), "debug", BoolV(TRUE)))}

\* Keyword arguments of a constructor call
KwargSets ==
    {EmptyMap, One("version", StrV("v1")), One("debug", NoneV), One("version", IntV(3)),
     One("raw_dataset", Frame)}

TopClasses ==
    {"Widget", "GenericTorchDatasetParameters", "GenericTorchDataset", "Tagged", "Misordered", "Bare"}

\* ------------------------------------------------------------------------
\* The object operations
\* ------------------------------------------------------------------------
\* out: the last call, its arguments and what it returned or raised
Idle ==
    [op |-> "init", pre |-> NoneV, raw |-> NoneV, oim |-> FALSE, name |-> "", val |-> NoneV,
     err |-> "none", enc |-> NoneV, back |-> NoneV, berr |-> "none", parsed |-> NoneV,
     perr |-> "none", eq |-> NoneV, eqerr |-> "none", enc2 |-> NoneV, other |-> NoneV,
     ordered |-> <<>>, unordered |-> <<>>, missing |-> <<>>, throw |-> FALSE,
     handed |-> NoneV, herr |-> "none", has |-> NoneV, haserr |-> "none", trace |-> <<>>,
     trace2 |-> <<>>]

\* The call left the object as r.v and raised r.err, if anything
Called(rec, r) ==
    /\ obj' = r.v
    /\ out' = [rec EXCEPT !.err = r.err]
    /\ UNCHANGED pluginVars

\* A constructor that raises builds nothing: the object at hand stays
Built(rec, r) ==
    /\ obj' = IF r.err = "none" THEN r.v ELSE obj
    /\ out' = [rec EXCEPT !.err = r.err]
    /\ UNCHANGED pluginVars

\* obj = class_type(**kwargs)
NewObject ==
    /\ out.op = "init"
    /\ \E t \in TopClasses, kwargs \in KwargSets :
          Built([Idle EXCEPT !.op = "new", !.pre = obj, !.name = t, !.raw = Dict(kwargs)],
                Construct(t, kwargs))

\* obj.<name> = v; handed is what the decorator of the setter passed on
Assigned(rec, dec, r) == Called([rec EXCEPT !.handed = dec.v, !.herr = dec.err], r)

SetAttr ==
    /\ out.op = "init"
    /\ \E name \in Attributes(obj.t) : \E v \in AssignValues(name) :
          Assigned([Idle EXCEPT !.op = "set", !.pre = obj, !.name = name, !.val = v],
                   Decorated(name, v), Setter(obj, name, v))

\* obj.has_<name>, then obj.<name>
Queried(rec, h, g) ==
    /\ out' = [rec EXCEPT !.has = h.v, !.haserr = h.err, !.val = g.v, !.err = g.err]
    /\ UNCHANGED <<obj, pluginVars>>

Query ==
    /\ out.op = "init"
    /\ \E name \in {n \in Attributes(obj.t) : HasQuery(obj.t, n)} :
          Queried([Idle EXCEPT !.op = "query", !.pre = obj, !.name = name],
                  has_query(obj, name), Getter(obj, name))

\* obj.from_dict(raw)
FromDict ==
    /\ out.op = "init"
    /\ \E raw \in RawMaps(obj.t) :
          Called([Idle EXCEPT !.op = "from_dict", !.pre = obj, !.raw = Dict(raw),
                              !.missing = split_ordered_and_unordered_attributes(obj.t).missing,
                              !.trace = from_dict_assignments(split_ordered_and_unordered_attributes(obj.t),
                                                              obj, Dict(raw))],
                 from_dict(obj, Dict(raw)))

\* obj.update(only_if_missing, raw)
Update ==
    /\ out.op = "init"
    /\ \E only_if_missing \in BOOLEAN, raw \in RawMaps(obj.t) :
          Called([Idle EXCEPT !.op = "update", !.pre = obj, !.raw = Dict(raw), !.oim = only_if_missing,
                              !.missing = split_ordered_and_unordered_attributes(obj.t).missing,
                              !.trace = update_assignments(split_ordered_and_unordered_attributes(obj.t),
                                                           obj, only_if_missing, Dict(raw))],
                 update(obj, only_if_missing, Dict(raw)))

\* obj.split_ordered_and_unordered_attributes()
Splitted(s) ==
    /\ out' = [Idle EXCEPT !.op = "split", !.pre = obj, !.err = s.err, !.ordered = s.ordered,
                           !.unordered = s.unordered, !.missing = s.missing]
    /\ UNCHANGED <<obj, pluginVars>>

Split ==
    /\ out.op = "init"
    /\ Splitted(split_ordered_and_unordered_attributes(obj.t))

\* e = obj.to_dict(); back = type(obj)() then back.from_dict(e);
\* parsed = ParsableProperty.parse(e, throw_if_unable_to_parse=True);
\* obj.equals(parsed); back.to_dict()
Encoded(o) == IF o.k = "obj" THEN to_dict(o) ELSE Fail("AttributeError")
Compared(o, p) == IF p.err = "none" /\ p.v.k = "obj" THEN equals(o, p.v) ELSE Fail(p.err)

Tripped(e, b, p, q, e2) ==
    /\ out' = [Idle EXCEPT !.op = "roundtrip", !.pre = obj, !.err = e.err, !.enc = e.v,
                           !.back = b.v, !.berr = b.err, !.parsed = p.v, !.perr = p.err,
                           !.eq = q.v, !.eqerr = q.err, !.enc2 = e2.v]
    /\ UNCHANGED <<obj, pluginVars>>

Rebuilt(e, b, p) == Tripped(e, b, p, Compared(obj, p), Bind(b, LAMBDA o : Encoded(o)))

Decoded(e) ==
    IF e.err # "none" THEN Tripped(e, Fail(e.err), Fail(e.err), Fail(e.err), Fail(e.err))
    ELSE Rebuilt(e,
                 Bind(Construct(obj.t, EmptyMap), LAMBDA fresh : from_dict(fresh, e.v)),
                 parse(e.v, TRUE, "none"))

RoundTrip ==
    /\ out.op = "init"
    /\ Decoded(to_dict(obj))

\* An instance of the parent class ParametersBase holding the version and
\* the debug of o
AsParent(o) == Obj("ParametersBase", [n \in {"version", "debug"} |-> o.f[n]])

\* ParsableProperty.parse(raw, throw_if_unable_to_parse=throw)
Parsed(rec, p) ==
    /\ out' = [rec EXCEPT !.parsed = p.v, !.perr = p.err]
    /\ UNCHANGED <<obj, pluginVars>>

Parse ==
    /\ out.op = "init"
    /\ \E raw \in ParseMaps \cup {e.v : e \in {to_dict(obj)} \cap {r \in {to_dict(obj)} : r.err = "none"}},
          throw \in BOOLEAN :
          Parsed([Idle EXCEPT !.op = "parse", !.pre = obj, !.raw = raw, !.throw = throw],
                 parse(raw, throw, "none"))

\* The objects obj is compared with: itself, a new instance of each class,
\* its data in an instance of its parent class, and itself with debug or
\* version cleared or set
Others(o) ==
    {o} \cup {Construct(t, EmptyMap).v : t \in TopClasses}
        \cup {AsParent(o) : t \in {o.t} \cap {"Widget", "GenericTorchDatasetParameters", "Misordered"}}
        \cup {Setter(o, "version", v).v : v \in {NoneV, StrV("v1")}}
        \cup {Setter(o, n, v).v : <<n, v>> \in (Fields(o.t) \cap {"debug"}) \X {NoneV, BoolV(TRUE)}}

Answered(rec, q) ==
    /\ out' = [rec EXCEPT !.eq = q.v, !.eqerr = q.err]
    /\ UNCHANGED <<obj, pluginVars>>

\* obj.equals(other)
Equals ==
    /\ out.op = "init"
    /\ \E other \in Others(obj) :
          Answered([Idle EXCEPT !.op = "equals", !.pre = obj, !.other = other], equals(obj, other))

\* What a to_dict call returned or raised, and the object as the call leaves
\* it
Left(r, o) == [err |-> r.err, v |-> r.v, self |-> o]

\* to_dict with a getter that hands its value over: the attributes read are
\* cleared
to_dict_call_draining(o) == Left(to_dict(o), Obj(o.t, [n \in DOMAIN o.f |-> NoneV]))

\* obj.to_dict() as a call on the object: to_dict and its helpers assign to
\* output only, to no attribute of self, of a nested object or of a class
to_dict_call(o) == Left(to_dict(o), o)

\* e = obj.to_dict(); e2 = obj.to_dict()
EncodedTwice(first, second) ==
    /\ obj' = second.self
    /\ out' = [Idle EXCEPT !.op = "encode", !.pre = obj, !.err = first.err, !.enc = first.v,
                           !.berr = second.err, !.enc2 = second.v]
    /\ UNCHANGED pluginVars

Again(first) == EncodedTwice(first, to_dict_call(first.self))

Encode ==
    /\ out.op = "init"
    /\ Again(to_dict_call(obj))

\* twin = copy.deepcopy(obj); obj.update(False, raw); twin.from_dict(raw)
Twinned(rec, u, d) == Called([rec EXCEPT !.back = d.v, !.berr = d.err], u)

UpdateAndDecode ==
    /\ out.op = "init"
    /\ \E raw \in RawMaps(obj.t) :
          Twinned([Idle EXCEPT !.op = "both", !.pre = obj, !.raw = Dict(raw),
                               !.trace = update_assignments(split_ordered_and_unordered_attributes(obj.t),
                                                            obj, FALSE, Dict(raw)),
                               !.trace2 = from_dict_assignments(split_ordered_and_unordered_attributes(obj.t),
                                                                obj, Dict(raw))],
                  update(obj, FALSE, Dict(raw)), from_dict(obj, Dict(raw)))

\* The caller has read the result
Return ==
    /\ out.op # "init"
    /\ out' = Idle
    /\ UNCHANGED <<obj, pluginVars>>

Init ==
    /\ obj \in {Construct(t, kwargs).v : <<t, kwargs>> \in
                  {"Widget", "GenericTorchDatasetParameters"} \X {EmptyMap, One("debug", NoneV)}}
    /\ out = Idle
    /\ loaded = <<>>
    /\ registry = [has |-> FALSE, map |-> EmptyMap]
    /\ pout = [op |-> "init"]
    /\ resolved = {}
    /\ callers = <<>>

Next ==
    \/ NewObject \/ SetAttr \/ Query \/ FromDict \/ Update \/ Split \/ Parse
    \/ RoundTrip \/ Equals \/ Encode \/ UpdateAndDecode \/ Return

Spec == Init /\ [][Next]_vars

\* ------------------------------------------------------------------------
\* The plugin registry: PluginBase
\* ------------------------------------------------------------------------
\* The classes defined so far, in definition order
RECURSIVE Defined(_)
Defined(L) == IF L = <<>> THEN <<>> ELSE ModuleClasses(Head(L)) \o Defined(Tail(L))

\* class_type.__subclasses__(): the direct subclasses, in definition order
subclasses_of(class_type, L) == SelectSeq(Defined(L), LAMBDA c : Parent(c) = class_type)

\* plugin.get_subclass_map: depth first, a later class of the same name
\* replaces the earlier one in the map.
RECURSIVE get_subclass_map(_, _, _)
RECURSIVE subclass_loop(_, _, _, _)
subclass_loop(subs, i, class_map, L) ==
    IF i > Len(subs) THEN class_map
    ELSE subclass_loop(subs, i + 1,
                       get_subclass_map(subs[i], MapPut(class_map, NameOf(subs[i]), subs[i]), L), L)

get_subclass_map(class_type, class_map, L) ==
    subclass_loop(subclasses_of(class_type, L), 1, class_map, L)

\* dict.update(**subclasses)
Merged(map, subclasses) ==
    [x \in (DOMAIN map) \cup (DOMAIN subclasses) |->
        IF x \in DOMAIN subclasses THEN subclasses[x] ELSE map[x]]

\* add_registry: the dictionary is an attribute of type(cls), the metaclass
\* that every plugin class shares.
add_registry(reg) == IF reg.has THEN reg ELSE [has |-> TRUE, map |-> EmptyMap]

has_registered_class(reg, class_name) == reg.has /\ class_name \in DOMAIN reg.map

\* What a call returns or raises, the registry and the imported modules as
\* it leaves them, and the error records it logged: one entry for each
\* loghandler.error call, TRUE when the record carries the call site
\* (record_location=True)
Outcome(e, c, reg, L) ==
    [err |-> e, v |-> c, reg |-> reg, loaded |-> L, log |-> <<>>, built |-> FALSE, decoded |-> NoneV]

\* loghandler.error was called, sites in order, before what r logged
Logging(r, sites) == [r EXCEPT !.log = sites \o @]

\* The records of get_class_and_module_strings(input_values,
\* parsable_class=class_name): "Unable to deduce the module name to load"
\* when the module key is absent
DeduceLog(input_values) ==
    IF generic_parsable_module \in DOMAIN input_values.m THEN <<>> ELSE <<TRUE>>

\* importlib.import_module: the module's class statements run once
Load(L, m) == IF InSeq(m, L) THEN L ELSE Append(L, m)

Members(m, class_name) == {c \in SeqToSet(ModuleClasses(m)) : NameOf(c) = class_name}

\* get_class after getattr: the second scan and the conditional merge
Remerged(class_type, reg, L, subclasses) ==
    Outcome("none", class_type,
            IF NameOf(class_type) \in DOMAIN subclasses
            THEN [has |-> TRUE, map |-> Merged(reg.map, subclasses)] ELSE reg,
            L)

\* get_class from "imported_module = importlib.import_module(class_module)"
Imported(cls, class_name, class_module, reg, L) ==
    IF class_module = NoneV THEN Outcome("none", "None", reg, L)
    ELSE IF class_module.k # "str" \/ class_module.s \notin Modules
    THEN Outcome("ModuleNotFoundError", "None", reg, L)
    ELSE IF Members(class_module.s, class_name) = {}
    THEN Outcome("AttributeError", "None", reg, Load(L, class_module.s))
    ELSE Remerged(CHOOSE c \in Members(class_module.s, class_name) : TRUE, reg,
                  Load(L, class_module.s),
                  get_subclass_map(cls, EmptyMap, Load(L, class_module.s)))

\* get_class after the registry miss, given the first scan
Scanned(cls, class_name, class_module, input_values, reg, L, subclasses) ==
    IF class_name \in DOMAIN subclasses
    THEN Outcome("none", subclasses[class_name],
                 [has |-> TRUE, map |-> Merged(reg.map, subclasses)], L)
    ELSE IF class_module = NoneV /\ input_values = NoneV THEN Outcome("none", "None", reg, L)
    ELSE IF class_module = NoneV
    THEN Logging(Imported(cls, class_name,
                          get_class_and_module_strings(input_values, FALSE).mod, reg, L),
                 DeduceLog(input_values))
    ELSE Imported(cls, class_name, class_module, reg, L)

Registered(cls, class_name, class_module, input_values, reg, L) ==
    IF has_registered_class(reg, class_name) THEN Outcome("none", reg.map[class_name], reg, L)
    ELSE Scanned(cls, class_name, class_module, input_values, reg, L,
                 get_subclass_map(cls, EmptyMap, L))

\* PluginBase.get_class: the class, or "None"
get_class(cls, class_name, class_module, input_values, reg, L) ==
    Registered(cls, class_name, class_module, input_values, add_registry(reg), L)

\* PluginBase.lookup
NotNone(r) ==
    IF r.err = "none" /\ r.v = "None"
    THEN [r EXCEPT !.err = "RuntimeError", !.log = Append(@, TRUE)]
    ELSE r

lookup(cls, class_name, class_module, input_values, reg, L) ==
    NotNone(get_class(cls, class_name, class_module, input_values, reg, L))

\* output_class(**kwargs): Python raises TypeError when a parameter of
\* __init__ that has no default is not passed, and when a class with
\* object's __init__ is passed anything
Instantiated(r, kwargs) ==
    IF r.err # "none" THEN r
    ELSE IF signature_required(r.v) \subseteq DOMAIN kwargs
            /\ (r.v \in {"pkg.b.Baz"} => DOMAIN kwargs = {})
    THEN r
    ELSE [r EXCEPT !.err = "TypeError"]

\* PluginBase.construct: the instance is of the class lookup returned
construct(cls, class_name, class_module, kwargs, reg, L) ==
    Instantiated(lookup(cls, class_name, class_module, Dict(kwargs), reg, L), kwargs)

\* hasattr(output_class, 'from_dict'): Foo, Sub, Bar and Kid are Parsable
\* plugin classes; Zed and Baz define no from_dict
has_from_dict(c) == c \in {"pkg.mod.Foo", "pkg.other.Foo", "pkg.mod.Sub", "pkg.b.Bar", "pkg.b.Kid"}

\* PluginBase.parse after lookup, without the hasattr(output_class,
\* 'from_dict') test: the instance is constructed and the call of its
\* from_dict raises AttributeError when there is none
parse_after_lookup_untested(r, kwargs) ==
    IF r.err # "none" THEN r
    ELSE IF signature_required(r.v) # {} THEN [r EXCEPT !.err = "TypeError"]
    ELSE IF has_from_dict(r.v) THEN [r EXCEPT !.built = TRUE, !.decoded = Dict(kwargs)]
    ELSE [r EXCEPT !.built = TRUE, !.err = "AttributeError"]

\* PluginBase.parse after lookup: output_class(*args) with no keyword,
\* then output_instance.from_dict(kwargs); RuntimeError, logged with its call
\* site, when the class has no from_dict
parse_after_lookup(r, kwargs) ==
    IF r.err # "none" THEN r
    ELSE IF ~has_from_dict(r.v) THEN [r EXCEPT !.err = "RuntimeError", !.log = Append(@, TRUE)]
    ELSE IF signature_required(r.v) # {} THEN [r EXCEPT !.err = "TypeError"]
    ELSE [r EXCEPT !.built = TRUE, !.decoded = Dict(kwargs)]

\* PluginBase.parse
plugin_parse(cls, class_name, class_module, kwargs, reg, L) ==
    parse_after_lookup(lookup(cls, class_name, class_module, Dict(kwargs), reg, L), kwargs)

\* ------------------------------------------------------------------------
\* Descriptor extraction: PluginBase.extract_plugin_class_and_module_names
\* ------------------------------------------------------------------------
\* gather_plugin_class_and_module_keywords: RootA declares
\* plugin_property_name = "kind" and plugin_module_property_name = "where",
\* RootB declares plugin_property_name = "kind" only, PluginBase declares
\* neither; "None" is Python's None.
gather_plugin_class_and_module_keywords(cls) ==
    CASE cls = "RootA" -> <<"kind", "where">>
      [] cls = "RootB" -> <<"kind", "None">>
      [] OTHER -> <<"None", "None">>

\* The field names the extraction looks for
Keywords(cls, use_default) ==
    IF use_default THEN <<generic_parsable_type, generic_parsable_module>>
    ELSE gather_plugin_class_and_module_keywords(cls)

\* A descriptor says, for the type-name field (tf) and for the module field
\* (mf) that the call looks for, how the descriptor holds it.  In a map:
\* "absent" (no such key) or "assigned".  In an object: "absent" (no such
\* attribute), "unassigned" (a property of the type with a has_ query that
\* answers False), "assigned" (the same, answering True), "plain" (a property
\* of the type with no has_ query) or "instance" (an attribute of the
\* instance only, no has_ query).
MapStates == {"absent", "assigned"}
ObjectStates == {"absent", "unassigned", "assigned", "plain", "instance"}
Descriptors ==
    [form : {"map"}, tf : MapStates, mf : MapStates]
      \cup [form : {"object"}, tf : ObjectStates, mf : ObjectStates]

\* The values the fields hold when they hold one
TypeNameValue == StrV("Foo")
ModuleValue == StrV("pkg.mod")

\* What the extraction returns or raises and the error records it logged
Extracted(e, c, m, l) == [err |-> e, cls |-> c, mod |-> m, log |-> l]

\* The module name of an object descriptor: has_<field> decides when the
\* query exists, else getattr(parameters, field)
object_module_name(mf) ==
    CASE mf = "assigned" -> Extracted("none", TypeNameValue, ModuleValue, <<>>)
      [] mf = "unassigned" -> Extracted("RuntimeError", NoneV, NoneV, <<TRUE>>)
      [] mf = "absent" -> Extracted("AttributeError", NoneV, NoneV, <<>>)
      [] OTHER -> Extracted("none", TypeNameValue, ModuleValue, <<>>)

\* The isinstance(parameters, dict) branch
extract_from_map(d, keywords) ==
    IF d.tf = "absent" THEN Extracted("RuntimeError", NoneV, NoneV, <<TRUE>>)
    ELSE IF keywords[2] = "None" THEN Extracted("none", TypeNameValue, NoneV, <<>>)
    ELSE IF d.mf = "absent" THEN Extracted("RuntimeError", NoneV, NoneV, <<TRUE>>)
    ELSE Extracted("none", TypeNameValue, ModuleValue, <<>>)

\* The else branch: hasattr(type(parameters), field), then has_<field>
extract_from_object(d, keywords) ==
    IF d.tf \in {"absent", "instance"} THEN Extracted("RuntimeError", NoneV, NoneV, <<TRUE>>)
    ELSE IF d.tf = "unassigned" THEN Extracted("RuntimeError", NoneV, NoneV, <<TRUE>>)
    ELSE IF keywords[2] = "None" THEN Extracted("none", TypeNameValue, NoneV, <<>>)
    ELSE object_module_name(d.mf)

extract_plugin_class_and_module_names(cls, d, use_default) ==
    IF Keywords(cls, use_default)[1] = "None" THEN Extracted("RuntimeError", NoneV, NoneV, <<TRUE>>)
    ELSE IF d.form = "map" THEN extract_from_map(d, Keywords(cls, use_default))
    ELSE extract_from_object(d, Keywords(cls, use_default))

\* ------------------------------------------------------------------------
\* The plugin operations
\* ------------------------------------------------------------------------
Names == {"Foo", "Zed", "Bar", "Baz", "Nope"}
ConstructNames == {"Foo", "Zed", "Bar", "Kid", "Nope"}
\* Keyword arguments of construct
PluginKwargs == {EmptyMap, One("x", IntV(1)), One("y", IntV(1)), MapPut(One("x", IntV(1)), "y", IntV(1))}
ModuleArgs == {NoneV, StrV("pkg.mod"), StrV("pkg.other"), StrV("pkg.b"), StrV("no.such")}
InputValues == {NoneV, Dict(EmptyMap), Dict(One(generic_parsable_module, StrV("pkg.mod")))}

PIdle ==
    [op |-> "init", root |-> "", name |-> "", module |-> NoneV, input |-> NoneV,
     err |-> "none", ret |-> "None", reg0 |-> EmptyMap, loaded0 |-> <<>>, log |-> <<>>,
     built |-> FALSE, decoded |-> NoneV, dflt |-> FALSE, cls |-> NoneV, mod |-> NoneV]

\* The call returned r.v or raised r.err
Resolved(rec, r) ==
    /\ pout' = [rec EXCEPT !.err = r.err, !.ret = r.v, !.reg0 = registry.map, !.loaded0 = loaded,
                            !.log = r.log, !.built = r.built, !.decoded = r.decoded]
    /\ registry' = r.reg
    /\ loaded' = r.loaded

\* Some code imports a module that defines plugin classes
ImportModule ==
    /\ pout.op = "init"
    /\ \E m \in Modules : ~InSeq(m, loaded) /\ loaded' = Append(loaded, m)
    /\ UNCHANGED <<objectVars, callers, registry, pout, resolved>>

\* cls.get_class(class_name, class_module, input_values)
GetClass ==
    /\ pout.op = "init"
    /\ \E cls \in Roots, class_name \in Names, class_module \in ModuleArgs, input_values \in InputValues :
          Resolved([PIdle EXCEPT !.op = "get_class", !.root = cls, !.name = class_name,
                                 !.module = class_module, !.input = input_values],
                   get_class(cls, class_name, class_module, input_values, registry, loaded))
    /\ UNCHANGED <<objectVars, callers, resolved>>

\* cls.lookup(class_name, class_module)
Lookup ==
    /\ pout.op = "init"
    /\ \E cls \in Roots, class_name \in Names, class_module \in ModuleArgs :
          Resolved([PIdle EXCEPT !.op = "lookup", !.root = cls, !.name = class_name,
                                 !.module = class_module],
                   lookup(cls, class_name, class_module, NoneV, registry, loaded))
    /\ UNCHANGED <<objectVars, callers, resolved>>

\* The first class a module-qualified construct of a name returned for a
\* root, remembered for the names that two modules define or that share a
\* module with such a name
Remembered == {"Foo", "Zed"}

Noted(cls, class_name, class_module, r) ==
    IF class_module # NoneV /\ r.err = "none" /\ class_name \in Remembered
       /\ ~\E h \in resolved : h[1] = cls /\ h[2] = class_name
    THEN resolved \cup {<<cls, class_name, r.v>>}
    ELSE resolved

Constructed(cls, class_name, class_module, kwargs, r) ==
    /\ Resolved([PIdle EXCEPT !.op = "construct", !.root = cls, !.name = class_name,
                              !.module = class_module, !.input = Dict(kwargs)], r)
    /\ resolved' = Noted(cls, class_name, class_module, r)

\* cls.construct(class_name, class_module=class_module)
ConstructPlugin ==
    /\ pout.op = "init"
    /\ \E cls \in Roots, class_name \in ConstructNames, class_module \in ModuleArgs,
          kwargs \in PluginKwargs :
          Constructed(cls, class_name, class_module, kwargs,
                      construct(cls, class_name, class_module, kwargs, registry, loaded))
    /\ UNCHANGED <<objectVars, callers>>

\* The raw maps of PluginBase.parse
PluginRaw == {EmptyMap, One("version", StrV("v1"))}

\* cls.parse(class_name, class_module=class_module, **raw)
ParsePlugin ==
    /\ pout.op = "init"
    /\ \E cls \in Roots, class_name \in {"Foo", "Zed", "Bar", "Nope"}, class_module \in ModuleArgs,
          raw \in PluginRaw :
          Resolved([PIdle EXCEPT !.op = "parse", !.root = cls, !.name = class_name,
                                 !.module = class_module, !.input = Dict(raw)],
                   plugin_parse(cls, class_name, class_module, raw, registry, loaded))
    /\ UNCHANGED <<objectVars, callers, resolved>>

\* cls.extract_plugin_class_and_module_names(parameters, use_default)
ExtractedAs(rec, r) ==
    /\ pout' = [rec EXCEPT !.err = r.err, !.cls = r.cls, !.mod = r.mod, !.log = r.log]
    /\ UNCHANGED <<objectVars, callers, loaded, registry, resolved>>

Extract ==
    /\ pout.op = "init"
    /\ \E cls \in Roots \cup {"PluginBase"}, d \in Descriptors, use_default \in BOOLEAN :
          ExtractedAs([PIdle EXCEPT !.op = "extract", !.root = cls, !.input = d, !.dflt = use_default],
                      extract_plugin_class_and_module_names(cls, d, use_default))

\* The caller has read the result
ReturnPlugin ==
    /\ pout.op # "init"
    /\ pout' = PIdle
    /\ UNCHANGED <<objectVars, callers, loaded, registry, resolved>>

InitPlugin ==
    /\ obj = NoneV
    /\ out = Idle
    /\ loaded = <<>>
    /\ registry = [has |-> FALSE, map |-> EmptyMap]
    /\ pout = PIdle
    /\ resolved = {}
    /\ callers = <<>>

NextPlugin ==
    \/ ImportModule \/ GetClass \/ Lookup \/ ConstructPlugin \/ ParsePlugin \/ Extract
    \/ ReturnPlugin

SpecPlugin == InitPlugin /\ [][NextPlugin]_vars

\* ------------------------------------------------------------------------
\* Two threads in PluginBase.get_class on one root
\* ------------------------------------------------------------------------
\* Each thread runs get_class(class_name, class_module) on RaceRoot; a step
\* is one of the reads and writes of the shared state (the registry
\* attribute of the metaclass, its dictionary, the classes defined) that the
\* code makes, in program order.  The names asked for are RootB's, which no
\* two modules define twice.
Threads == {1, 2}
RaceRoot == "RootB"
Requests == {<<"Bar", StrV("pkg.b")>>, <<"Kid", StrV("pkg.b")>>, <<"Baz", StrV("pkg.b")>>,
             <<"Nope", StrV("pkg.b")>>}

\* A thread about to call: pc is the next statement, subclasses and cls are
\* its local variables, ret and err what it returned or raised, wrote the
\* registry entries its merges have written
Calling(req) ==
    [pc |-> "has_registry", name |-> req[1], module |-> req[2], subclasses |-> EmptyMap,
     cls |-> "None", ret |-> "None", err |-> "none", wrote |-> {}]

Goes(p, rec) == callers' = [callers EXCEPT ![p] = rec]

\* return / raise
Done(c, ret, err) == [c EXCEPT !.pc = "done", !.ret = ret, !.err = err]

\* get_class: "if not cls.has_registry():"
RaceHasRegistry(p) ==
    /\ callers[p].pc = "has_registry"
    /\ Goes(p, [callers[p] EXCEPT !.pc = IF registry.has THEN "check" ELSE "add_test"])
    /\ UNCHANGED <<objectVars, loaded, registry, pout, resolved>>

\* add_registry: "if not hasattr(type(cls), '_registered_plugins'):"
RaceAddTest(p) ==
    /\ callers[p].pc = "add_test"
    /\ Goes(p, [callers[p] EXCEPT !.pc = IF registry.has THEN "check" ELSE "add_set"])
    /\ UNCHANGED <<objectVars, loaded, registry, pout, resolved>>

\* add_registry: "setattr(type(cls), '_registered_plugins', dict())"
RaceAddSet(p) ==
    /\ callers[p].pc = "add_set"
    /\ registry' = [has |-> TRUE, map |-> EmptyMap]
    /\ Goes(p, [callers[p] EXCEPT !.pc = "check"])
    /\ UNCHANGED <<objectVars, loaded, pout, resolved>>

\* "if cls.has_registered_class(class_name): return ....get(class_name)"
RaceCheck(p) ==
    /\ callers[p].pc = "check"
    /\ Goes(p, IF has_registered_class(registry, callers[p].name)
               THEN Done(callers[p], registry.map[callers[p].name], "none")
               ELSE [callers[p] EXCEPT !.pc = "scan"])
    /\ UNCHANGED <<objectVars, loaded, registry, pout, resolved>>

\* "subclasses = get_subclass_map(cls, subclasses)" and the tests on
\* class_name and class_module that follow it
Scans(c, subclasses) ==
    IF c.name \in DOMAIN subclasses THEN [c EXCEPT !.pc = "merge", !.subclasses = subclasses]
    ELSE IF c.module = NoneV THEN Done(c, "None", "none")
    ELSE [c EXCEPT !.pc = "load", !.subclasses = subclasses]

RaceScan(p) ==
    /\ callers[p].pc = "scan"
    /\ Goes(p, Scans(callers[p], get_subclass_map(RaceRoot, EmptyMap, loaded)))
    /\ UNCHANGED <<objectVars, loaded, registry, pout, resolved>>

\* The entries a merge writes
Entries(subclasses) == {<<n, subclasses[n]>> : n \in DOMAIN subclasses}

\* "type(cls)._registered_plugins.update(**subclasses)" and the return
Merges(p, ret) ==
    /\ registry' = [registry EXCEPT !.map = Merged(registry.map, callers[p].subclasses)]
    /\ Goes(p, [Done(callers[p], ret, "none") EXCEPT !.wrote = @ \cup Entries(callers[p].subclasses)])
    /\ UNCHANGED <<objectVars, loaded, pout, resolved>>

RaceMerge(p) ==
    /\ callers[p].pc = "merge"
    /\ Merges(p, callers[p].subclasses[callers[p].name])

\* "imported_module = importlib.import_module(class_module)" and
\* "class_type = getattr(imported_module, class_name)"
Loads(c) ==
    IF c.module.s \notin Modules THEN Done(c, "None", "ModuleNotFoundError")
    ELSE IF Members(c.module.s, c.name) = {} THEN Done(c, "None", "AttributeError")
    ELSE [c EXCEPT !.pc = "rescan", !.cls = CHOOSE x \in Members(c.module.s, c.name) : TRUE]

RaceLoad(p) ==
    /\ callers[p].pc = "load"
    /\ loaded' = IF callers[p].module.s \in Modules THEN Load(loaded, callers[p].module.s) ELSE loaded
    /\ Goes(p, Loads(callers[p]))
    /\ UNCHANGED <<objectVars, registry, pout, resolved>>

\* The second "subclasses = get_subclass_map(cls, subclasses)" and
\* "if class_type.__name__ in subclasses:"
Rescans(c, subclasses) ==
    IF NameOf(c.cls) \in DOMAIN subclasses THEN [c EXCEPT !.pc = "remerge", !.subclasses = subclasses]
    ELSE Done(c, c.cls, "none")

RaceRescan(p) ==
    /\ callers[p].pc = "rescan"
    /\ Goes(p, Rescans(callers[p], get_subclass_map(RaceRoot, EmptyMap, loaded)))
    /\ UNCHANGED <<objectVars, loaded, registry, pout, resolved>>

\* The second update and "return class_type"
RaceRemerge(p) ==
    /\ callers[p].pc = "remerge"
    /\ Merges(p, callers[p].cls)

InitRace ==
    /\ obj = NoneV
    /\ out = Idle
    /\ loaded = <<>>
    /\ registry = [has |-> FALSE, map |-> EmptyMap]
    /\ pout = PIdle
    /\ resolved = {}
    /\ callers \in [Threads -> {Calling(req) : req \in Requests}]

NextRace ==
    \/ \E p \in Threads : RaceHasRegistry(p)
    \/ \E p \in Threads : RaceAddTest(p)
    \/ \E p \in Threads : RaceAddSet(p)
    \/ \E p \in Threads : RaceCheck(p)
    \/ \E p \in Threads : RaceScan(p)
    \/ \E p \in Threads : RaceMerge(p)
    \/ \E p \in Threads : RaceLoad(p)
    \/ \E p \in Threads : RaceRescan(p)
    \/ \E p \in Threads : RaceRemerge(p)

SpecRace == InitRace /\ [][NextRace]_vars

\* ------------------------------------------------------------------------
\* Properties of the object operations (checked under Spec)
\* ------------------------------------------------------------------------
RoundTripped == out.op = "roundtrip" /\ out.err = "none"

\* Every registered attribute of o holds a value
AllPopulated(o) == \A n \in Fields(o.t) : o.f[n] # NoneV

\* The class registers an attribute in each of the six categories
SixCategories(t) ==
    /\ serializable_attributes(t) # <<>> /\ enum_attributes(t) # <<>>
    /\ parsable_attributes(t) # <<>> /\ specialized_attributes(t) # <<>>
    /\ dict_of_parsables(t) # <<>> /\ list_of_parsables(t) # <<>>

\* C1.  Round trip: for every object O of a resolvable type whose attributes
\* in all six categories hold values, the instance parsed from encode(O)
\* (type resolved from the tags, constructed, fully decoded) is one for which
\* equals(O, O') is true.
C1_RoundTripEquals ==
    (RoundTripped /\ SixCategories(out.pre.t) /\ AllPopulated(out.pre) /\ out.perr = "none")
        => (out.eqerr = "none" /\ out.eq = BoolV(TRUE))

\* The optional attributes of o that were never set
Unset(o) == {n \in Fields(o.t) : HasQuery(o.t, n) /\ ~has_(o, n)}

ReservedKeys == {generic_parsable_type, generic_parsable_module}

\* C2 as stated.  Presence-aware omission for every optional attribute,
\* debug included: an attribute never set on O is no key of encode(O), and a
\* fresh instance of O's type decoded from encode(O) reports it absent.
C2_OmissionEveryOptional ==
    (RoundTripped /\ out.berr = "none")
        => \A n \in Unset(out.pre) : n \notin DOMAIN out.enc.m /\ ~has_(out.back, n)

\* C2 as amended.  Presence-aware omission holds for every optional
\* attribute whose constructor default is None and whose name is no reserved
\* key: never set on O, it is no key of encode(O) and the fresh instance
\* decoded from encode(O) reports it absent.
C2_OmissionNullDefault ==
    (RoundTripped /\ out.berr = "none")
        => \A n \in Unset(out.pre) :
              (InitDefault(out.pre.t, n) = NoneV /\ n \notin ReservedKeys)
                  => (n \notin DOMAIN out.enc.m /\ ~has_(out.back, n))

C2_Witness ==
    /\ RoundTripped /\ out.berr = "none"
    /\ out.pre.t = "Widget"
    /\ {"version", "mode", "child", "blob"} \subseteq Unset(out.pre)
    /\ "version" \notin DOMAIN out.enc.m
    /\ ~has_(out.back, "mode")

\* What assigning the raw value v to attribute name stores
Stored(o, name, v) ==
    CASE InSeq(name, enum_attributes(o.t)) -> enum_parse(v).v
      [] InSeq(name, parsable_attributes(o.t)) -> parsable_setter(v, "none").v
      [] InSeq(name, dict_of_parsables(o.t)) -> Dict(parsed_dict(v.m).v.m)
      [] InSeq(name, list_of_parsables(o.t)) -> List(parsed_list(v.q).v.q)
      [] InSeq(name, specialized_attributes(o.t)) -> blob_decode(o, v).v.f[name]
      [] OTHER -> v

\* C3.  Update policy: an attribute with a presence query that reports
\* present keeps its value under update(only_if_missing=True, raw) for every
\* raw map; update(only_if_missing=False, {X: v}) with an acceptable v leaves
\* X holding v; update(only_if_missing=True, {X: v}) on an absent X sets it.
C3_UpdatePolicy ==
    out.op = "update" =>
        /\ out.oim =>
              \A n \in Fields(out.pre.t) :
                  (HasQuery(out.pre.t, n) /\ has_(out.pre, n)) => obj.f[n] = out.pre.f[n]
        /\ \A n \in Fields(out.pre.t) :
              (/\ HasQuery(out.pre.t, n)
               /\ DOMAIN out.raw.m = {n}
               /\ out.err = "none"
               /\ (~out.oim \/ ~has_(out.pre, n)))
                  => obj.f[n] = Stored(out.pre, n, out.raw.m[n])

C3_Witness ==
    /\ out.op = "update" /\ out.oim /\ out.err = "none"
    /\ out.pre.t = "Widget"
    /\ DOMAIN out.raw.m = {"version", "debug"}
    /\ out.raw.m["debug"] = BoolV(TRUE)
    /\ out.pre.f["debug"] = BoolV(FALSE)
    /\ out.pre.f["version"] = NoneV
    /\ obj.f["debug"] = BoolV(FALSE)
    /\ obj.f["version"] = StrV("v1")

\* The nested objects an attribute value holds
Nested(v) ==
    CASE v.k = "obj" -> {v}
      [] v.k = "dict" -> {v.m[x] : x \in DOMAIN v.m}
      [] v.k = "list" -> {v.q[i] : i \in 1..Len(v.q)}
      [] OTHER -> {}

\* The encoded form of the nested object at the same place
NestedPairs(v, e) ==
    CASE v.k = "obj" -> {<<v, e>>}
      [] v.k = "dict" -> {<<v.m[x], e.m[x]>> : x \in DOMAIN v.m}
      [] v.k = "list" -> {<<v.q[i], e.q[i]>> : i \in 1..Len(v.q)}
      [] OTHER -> {}

\* The map e that o encoded to carries o's runtime type and module under the
\* reserved keys, and so does the map of every nested object.
RECURSIVE TagsOk(_, _)
TagsOk(o, e) ==
    /\ e.k = "dict"
    /\ ReservedKeys \subseteq DOMAIN e.m
    /\ e.m[generic_parsable_type] = StrV(o.t)
    /\ e.m[generic_parsable_module] = StrV(ModuleOf(o.t))
    /\ \A n \in Fields(o.t) \ ReservedKeys :
          (o.f[n].k \in {"obj", "dict", "list"} /\ n \in DOMAIN e.m)
              => \A p \in NestedPairs(o.f[n], e.m[n]) : p[1].k = "obj" => TagsOk(p[1], p[2])

\* No attribute named like a reserved key holds a value, in o or nested in it
RECURSIVE NoReservedValue(_)
NoReservedValue(o) ==
    /\ \A n \in Fields(o.t) \cap ReservedKeys : o.f[n] = NoneV
    /\ \A n \in Fields(o.t) : \A c \in Nested(o.f[n]) : c.k = "obj" => NoReservedValue(c)

\* C8 as stated.  Every map that encode produces, at the top and for every
\* nested object, holds the runtime type name and module of its object under
\* parsable_type and parsable_module, whatever the attribute names are.
C8_TagsAlways == RoundTripped => TagsOk(out.pre, out.enc)

\* C8 as amended.  The same, for objects in which no registered attribute
\* named like a reserved key holds a value (such a value replaces the tag).
C8_TagsUnlessShadowed ==
    (RoundTripped /\ NoReservedValue(out.pre)) => TagsOk(out.pre, out.enc)

C8_Witness ==
    /\ RoundTripped /\ out.pre.t = "Widget"
    /\ out.pre.f["child"].k = "obj"
    /\ out.pre.f["children"].k = "dict"
    /\ out.pre.f["items"].k = "list"
    /\ TagsOk(out.pre, out.enc)
    /\ out.enc.m["children"].m["a"].m[generic_parsable_type] = StrV("ParametersBase")

\* Every attribute with a constructor default other than None holds a value,
\* in o and in every object nested in it
RECURSIVE DefaultsPresent(_)
DefaultsPresent(o) ==
    /\ \A n \in Fields(o.t) : InitDefault(o.t, n) # NoneV => o.f[n] # NoneV
    /\ \A n \in Fields(o.t) : \A c \in Nested(o.f[n]) : c.k = "obj" => DefaultsPresent(c)

\* C9 as stated.  Idempotence: for every object O, encoding the object
\* rebuilt from encode(O) (fresh instance, decode) gives a map with the keys
\* and values of encode(O).
C9_IdempotentEvery == (RoundTripped /\ out.berr = "none") => out.enc2 = out.enc

\* C9 as amended.  The same, for every object O in which each attribute whose
\* constructor default is not None (debug) holds a value, in O and in every
\* object nested in O.
C9_IdempotentDefaultsPresent ==
    (RoundTripped /\ out.berr = "none" /\ DefaultsPresent(out.pre)) => out.enc2 = out.enc

C9_Witness ==
    /\ RoundTripped /\ out.berr = "none"
    /\ out.pre.t = "Widget" /\ AllPopulated(out.pre) /\ DefaultsPresent(out.pre)
    /\ out.enc2 = out.enc
    /\ out.enc.m["mode"] = StrV("BLUE")
    /\ out.enc.m["blob"] = StrV("1s")

\* The attributes with a presence query on which self and other disagree
OneSided(self, other) ==
    {n \in Fields(self.t) : HasQuery(self.t, n) /\ has_(self, n) # has_(other, n)}

\* C10.  Equality tri-state, for two objects of one runtime type: when every
\* attribute is absent on both sides equals is true; when some attribute with
\* a presence query is present on exactly one side equals returns false,
\* whatever the stored values are.
C10_EqualityTriState ==
    (out.op = "equals" /\ out.other.t = out.pre.t) =>
        /\ (\A n \in Fields(out.pre.t) : HasQuery(out.pre.t, n) /\ ~has_(out.pre, n) /\ ~has_(out.other, n))
              => (out.eqerr = "none" /\ out.eq = BoolV(TRUE))
        /\ OneSided(out.pre, out.other) # {}
              => (out.eqerr = "none" /\ out.eq = BoolV(FALSE))

\* C11.  equals returns false, raising nothing, whenever the runtime types of
\* self and other differ, whatever the attributes hold (no attribute is read
\* or compared); an instance of a subtype is not equal to an instance of its
\* parent type that holds the same attribute data.
C11_TypeMismatchIsFalse ==
    (out.op = "equals" /\ out.other.t # out.pre.t)
        => (out.eqerr = "none" /\ out.eq = BoolV(FALSE))

C11_Witness ==
    /\ out.op = "equals"
    /\ out.pre.t = "GenericTorchDatasetParameters"
    /\ out.other = AsParent(out.pre)
    /\ out.pre.f["version"] = StrV("v1") /\ out.pre.f["debug"] = BoolV(TRUE)
    /\ out.pre.f["dataset_directory"] = NoneV
    /\ out.eqerr = "none" /\ out.eq = BoolV(FALSE)

\* The names of the parsing order of class t that t registers in no category
Unregistered(t) == SeqToSet(desired_order_of_parsing(t)) \ Fields(t)

\* C12.  Ordering validation: when the parsing order of O lists a name that
\* is in none of the six category lists, split, decode and update fail with
\* ValueError (the ordering error), the message names exactly the
\* unregistered names, and O is as it was before the call.
C12_OrderingValidation ==
    (out.op \in {"split", "from_dict", "update"} /\ Unregistered(out.pre.t) # {})
        => /\ out.err = "ValueError"
           /\ SeqToSet(out.missing) = Unregistered(out.pre.t)
           /\ obj = out.pre

C12_Witness ==
    /\ out.op = "from_dict" /\ out.pre.t = "Misordered"
    /\ out.pre.f["debug"] = BoolV(FALSE)
    /\ "debug" \in DOMAIN out.raw.m /\ out.raw.m["debug"] = BoolV(TRUE)
    /\ out.err = "ValueError" /\ out.missing = <<"ghost">>
    /\ obj = out.pre

\* Each name of names occurs once in q
ExactlyOnce(names, q) == \A n \in names : Cardinality({i \in 1..Len(q) : q[i] = n}) = 1

\* C13.  For a valid parsing order, split returns ordered equal to the
\* parsing order in its own sequence and unordered equal to the registered
\* names outside it, in their order among the registered names; ordered
\* followed by unordered holds every registered name exactly once.
C13_SplitPartition ==
    (out.op = "split" /\ Unregistered(out.pre.t) = {})
        => /\ out.err = "none"
           /\ out.ordered = desired_order_of_parsing(out.pre.t)
           /\ out.unordered = SelectSeq(collect_all_attributes(out.pre.t),
                                        LAMBDA x : x \notin SeqToSet(desired_order_of_parsing(out.pre.t)))
           /\ ExactlyOnce(Fields(out.pre.t), out.ordered \o out.unordered)

\* The class a raw map names with its two tags, or "none"
TaggedClass(raw) ==
    IF ReservedKeys \subseteq DOMAIN raw.m /\ raw.m[generic_parsable_type].k = "str"
       /\ raw.m[generic_parsable_type].s \in Classes
       /\ raw.m[generic_parsable_module] = StrV(ModuleOf(raw.m[generic_parsable_type].s))
    THEN raw.m[generic_parsable_type].s
    ELSE "none"

\* p is the instance of the class raw names that a complete decode of raw
\* into a new instance gives
FullyHydrated(p, raw) ==
    /\ TaggedClass(raw) # "none"
    /\ from_dict(Construct(TaggedClass(raw), EmptyMap).v, raw) = Ok(p)

\* C14.  Strict versus best-effort parsing: with throw_if_unable_to_parse
\* false, ParsableProperty.parse raises nothing and returns a fully hydrated
\* instance or the input map as it was; with the flag true, every parse that
\* does not end in a hydrated instance (the type was not deduced, not loaded,
\* not constructed or not decoded into) raises.
C14_StrictVersusBestEffort ==
    out.op = "parse" =>
        /\ ~out.throw => (out.perr = "none"
                           /\ (out.parsed = out.raw \/ FullyHydrated(out.parsed, out.raw)))
        /\ out.throw => (out.perr # "none" \/ FullyHydrated(out.parsed, out.raw))

\* The best-effort half of C14 alone
C14_BestEffortNeverRaises ==
    (out.op = "parse" /\ ~out.throw)
        => (out.perr = "none" /\ (out.parsed = out.raw \/ FullyHydrated(out.parsed, out.raw)))

\* The optional attributes C16 names
OptionalAttributes == {"version", "debug", "dataset_directory", "dataset_parameters", "raw_dataset"}

\* C16.  For each optional attribute X (version, debug, dataset_directory,
\* dataset_parameters, raw_dataset), from construction on: has_X answers a
\* boolean, true exactly when the value stored by the last accepted
\* assignment is not None; the getter returns that value when has_X is true
\* and raises AttributeError when it is false; an accepted assignment stores
\* the value assigned, and one rejected with TypeError leaves the object as
\* it was.
C16_PresenceQueries ==
    /\ (out.op = "query" /\ out.name \in OptionalAttributes)
          => /\ out.haserr = "none" /\ out.has.k = "bool"
             /\ out.has.b <=> obj.f[out.name] # NoneV
             /\ out.has.b => (out.err = "none" /\ out.val = obj.f[out.name])
             /\ ~out.has.b => out.err = "AttributeError"
    /\ (out.op = "set" /\ out.name \in OptionalAttributes)
          => /\ out.err \in {"none", "TypeError"}
             /\ out.err = "none" => obj.f[out.name] = out.val
             /\ out.err = "TypeError" => obj = out.pre

\* p is the instance a complete decode of raw into a new instance of class
\* t gives
HydratedAs(p, t, raw) == t # "none" /\ from_dict(Construct(t, EmptyMap).v, raw) = Ok(p)

\* The class a coercing setter parses a map into: its class_type, else the
\* class the tags of the map name
ParsedClass(name, raw) == IF SetterClass(name) # "none" THEN SetterClass(name) ELSE TaggedClass(raw)

\* The raw map decodes into a new instance of class t
Decodes(t, raw) == t # "none" /\ from_dict(Construct(t, EmptyMap).v, raw).err = "none"

\* C17.  Assignment-time coercion: a coercing setter that is assigned a raw
\* tagged map hands to the underlying setter the instance parsed from the map
\* (the map itself when it does not parse); assigned an instance or any other
\* value that is no map, it hands on exactly that value.
C17_AssignmentCoercion ==
    (out.op = "set" /\ out.name \in {"child", "raw_dataset"})
        => /\ out.herr = "none"
           /\ out.val.k # "dict" => out.handed = out.val
           /\ (out.val.k = "dict" /\ Decodes(ParsedClass(out.name, out.val), out.val))
                 => HydratedAs(out.handed, ParsedClass(out.name, out.val), out.val)
           /\ (out.val.k = "dict" /\ ~Decodes(ParsedClass(out.name, out.val), out.val))
                 => out.handed = out.val

C17_Witness ==
    /\ out.op = "set" /\ out.name = "child" /\ out.err = "none"
    /\ out.val = to_dict(NestedA).v
    /\ out.handed = NestedA
    /\ obj.f["child"] = NestedA

Ordered(t, n) == InSeq(n, desired_order_of_parsing(t))
Place(t, n) == CHOOSE i \in 1..Len(desired_order_of_parsing(t)) : desired_order_of_parsing(t)[i] = n

\* C23.  Hydration order: from_dict and update assign in the sequence
\* ordered followed by unordered.  Of the attributes a call assigns, those
\* named in the parsing order are assigned in the order of that list and
\* before every attribute the list does not name, whatever the key order of
\* the raw map; a call that returns has assigned every key of the raw map
\* that the parsing order names (update with only_if_missing: those not
\* present already).
C23_HydrationOrder ==
    (out.op \in {"from_dict", "update"} /\ Unregistered(out.pre.t) = {}) =>
        /\ \A i, j \in 1..Len(out.trace) :
              (i < j /\ Ordered(out.pre.t, out.trace[j]))
                  => /\ Ordered(out.pre.t, out.trace[i])
                     /\ Place(out.pre.t, out.trace[i]) < Place(out.pre.t, out.trace[j])
        /\ out.err = "none" =>
              \A n \in DOMAIN out.raw.m :
                  (Ordered(out.pre.t, n) /\ ~(out.op = "update" /\ Skips(out.pre, out.oim, n)))
                      => InSeq(n, out.trace)

C23_Witness ==
    /\ out.op = "from_dict" /\ out.err = "none" /\ out.pre.t = "Widget"
    /\ DOMAIN out.raw.m = {"version", "debug", "mode"}
    /\ collect_all_attributes("Widget")[2] = "debug" /\ collect_all_attributes("Widget")[3] = "mode"
    /\ out.trace = <<"mode", "debug", "version">>
    /\ obj.f["mode"] = EnumV("BLUE") /\ obj.f["debug"] = BoolV(TRUE)

\* The AttributeError "Unable to decode attribute [...] since there is no
\* function [..._decode]", the missing-codec failure
MissingCodec == "AttributeError"

\* The call comes to the specialized attribute n: nothing before it in the
\* walk has raised
Reaches(n) == out.err \in {"none", "ValueError", MissingCodec}

\* n_decode was invoked: it assigned, or raised its own ValueError
Invoked(n) == InSeq(n, out.trace) \/ out.err = "ValueError"

\* C26.  For a specialized attribute from_dict and update behave alike:
\* <name>_decode is invoked exactly when the key is in the raw map (and, for
\* update with only_if_missing, the attribute is not present already); the
\* missing-codec error is raised only when the key is in the raw map and the
\* type has no <name>_decode; when the key is not in the raw map the call
\* raises no such error and leaves the attribute as it was.
C26_SpecializedAlike ==
    (out.op \in {"from_dict", "update"} /\ Unregistered(out.pre.t) = {}) =>
        \A n \in SeqToSet(specialized_attributes(out.pre.t)) :
            /\ (HasDecode(out.pre.t, n) /\ Reaches(n))
                  => (Invoked(n) <=> (n \in DOMAIN out.raw.m
                                        /\ ~(out.op = "update" /\ Skips(out.pre, out.oim, n))))
            /\ out.err = MissingCodec => (n \in DOMAIN out.raw.m /\ ~HasDecode(out.pre.t, n))
            /\ n \notin DOMAIN out.raw.m => (out.err # MissingCodec /\ obj.f[n] = out.pre.f[n])

\* The element is a tagged map: a map that holds the type key
IsTagged(e) == e.k = "dict" /\ generic_parsable_type \in DOMAIN e.m

\* The tagged map resolves: its tags name a class and it decodes into a new
\* instance of it
Resolves(e) == Decodes(TaggedClass(e), e)

\* The elements of a collection value, by key or by index
Elements(c) == IF c.k = "dict" THEN c.m ELSE c.q

\* d is the element e decoded: the instance parsed from a tagged map, else e
DecodedElement(d, e) == IF IsTagged(e) THEN HydratedAs(d, TaggedClass(e), e) ELSE d = e

\* The collection attributes of class t
Collections(t) == SeqToSet(dict_of_parsables(t)) \cup SeqToSet(list_of_parsables(t))

\* The call decodes a collection for the attribute n and nothing else
DecodesCollection(n) ==
    /\ out.op = "from_dict"
    /\ n \in Collections(out.pre.t)
    /\ DOMAIN out.raw.m = {n}
    /\ out.raw.m[n].k = (IF InSeq(n, dict_of_parsables(out.pre.t)) THEN "dict" ELSE "list")

\* C27.  Decoding a map-of-nested-object or sequence-of-nested-object
\* attribute: a tagged element that cannot be resolved makes the decode
\* fail; otherwise the collection assigned through the setter has the keys
\* (the length and order) of the raw collection, every tagged element
\* replaced by the instance parsed from it and every untagged element as it
\* was.
C27_CollectionDecode ==
    \A n \in Fields(obj.t) :
        DecodesCollection(n) =>
            IF \E x \in DOMAIN Elements(out.raw.m[n]) :
                    IsTagged(Elements(out.raw.m[n])[x]) /\ ~Resolves(Elements(out.raw.m[n])[x])
            THEN out.err # "none"
            ELSE /\ out.err = "none"
                 /\ obj.f[n].k = out.raw.m[n].k
                 /\ DOMAIN Elements(obj.f[n]) = DOMAIN Elements(out.raw.m[n])
                 /\ \A x \in DOMAIN Elements(out.raw.m[n]) :
                        DecodedElement(Elements(obj.f[n])[x], Elements(out.raw.m[n])[x])

\* The call updates with a raw map that holds the collection attribute n only
UpdatesCollection(n) ==
    /\ out.op = "update"
    /\ n \in Collections(out.pre.t)
    /\ HasQuery(out.pre.t, n)
    /\ DOMAIN out.raw.m = {n}

\* C28.  Whole-attribute granularity of update for collections: for a
\* map-of-nested-object or sequence-of-nested-object attribute M with a
\* presence query, update(only_if_missing=True, {M: c}) leaves M as it was
\* when M is present, even for keys or elements of c that M lacks;
\* update(only_if_missing=False, {M: c}) that returns leaves M holding the
\* decoded c and no key or element of the old collection.
C28_WholeCollectionUpdate ==
    \A n \in Fields(obj.t) :
        UpdatesCollection(n) =>
            /\ (out.oim /\ has_(out.pre, n)) => (out.err = "none" /\ obj.f[n] = out.pre.f[n])
            /\ (~out.oim /\ out.err = "none") => obj.f[n] = Stored(out.pre, n, out.raw.m[n])

C28_Witness ==
    /\ UpdatesCollection("children") /\ out.oim /\ out.err = "none"
    /\ out.pre.f["children"] = Dict(One("a", NestedB))
    /\ DOMAIN out.raw.m["children"].m = {"b"}
    /\ obj.f["children"] = out.pre.f["children"]

\* The names of the walk of class t whose key is in the raw map, in walk
\* order
WalkKeys(t, raw) ==
    SelectSeq(walk_order(split_ordered_and_unordered_attributes(t)), LAMBDA n : n \in DOMAIN raw.m)

\* C29.  from_dict is not atomic: when it raises while assigning the k-th
\* attribute of its walk, the attributes before it in the walk whose key is
\* in the raw map keep the value just assigned, and the k-th and every later
\* attribute (and every attribute whose key is not in the raw map) keep the
\* value they had before the call.
C29_DecodeNotAtomic ==
    (out.op = "from_dict" /\ out.err # "none" /\ Unregistered(out.pre.t) = {}) =>
        /\ Len(out.trace) < Len(WalkKeys(out.pre.t, out.raw))
        /\ out.trace = SubSeq(WalkKeys(out.pre.t, out.raw), 1, Len(out.trace))
        /\ \A n \in SeqToSet(out.trace) : obj.f[n] = Stored(out.pre, n, out.raw.m[n])
        /\ \A n \in Fields(out.pre.t) \ SeqToSet(out.trace) : obj.f[n] = out.pre.f[n]

C29_Witness ==
    /\ out.op = "from_dict" /\ out.err = "TypeError"
    /\ out.pre.t = "GenericTorchDatasetParameters"
    /\ out.raw.m = MapPut(One("version", StrV("v1")), "debug", IntV(3))
    /\ out.pre.f["version"] = NoneV /\ obj.f["version"] = StrV("v1")
    /\ out.pre.f["debug"] = BoolV(FALSE) /\ obj.f["debug"] = BoolV(FALSE)

\* Every specialized attribute of class t has a <name>_decode codec (no
\* class of the model defines an update_<name> hook, and every registered
\* attribute is a property with a setter)
Codecs(t) == \A n \in SeqToSet(specialized_attributes(t)) : HasDecode(t, n) /\ can_set(t, n)

\* C30.  For an object whose type defines no update_<name> hook, whose
\* registered attributes are all settable and whose specialized attributes
\* all have a codec, and for every raw map, update(only_if_missing=False, raw)
\* and from_dict(raw) started from the same state make the same assignments
\* in the same order and end in the same state, or raise the same error.
C30_UpdateIsDecode ==
    (out.op = "both" /\ Codecs(out.pre.t))
        => /\ out.trace = out.trace2
           /\ out.err = out.berr
           /\ obj = out.back

C30_Witness ==
    /\ out.op = "both" /\ out.pre.t = "Widget" /\ out.err = "none"
    /\ DOMAIN out.raw.m = {"version", "debug", "mode"}
    /\ out.trace = <<"mode", "debug", "version">> /\ out.trace2 = out.trace
    /\ obj = out.back /\ obj # out.pre

\* ------------------------------------------------------------------------
\* Properties of the plugin registry (checked under SpecPlugin)
\* ------------------------------------------------------------------------
\* The call named no module, as an argument or in its input values
NoModule == pout.module = NoneV /\ (pout.input = NoneV \/ generic_parsable_module \notin DOMAIN pout.input.m)

\* The root's subclass closure, by name, when the call started
ClosureAtCall == get_subclass_map(pout.root, EmptyMap, pout.loaded0)

\* C4.  Plugin resolution sequence: construct(name) with no module, for a
\* name that neither the registry nor the root knows, fails with RuntimeError
\* and puts no entry for the name in the registry; construct(name, module)
\* succeeds when the module defines the name under the root; after such a
\* success every later construct(name) with no module succeeds and returns an
\* instance of the same type (the keyword arguments being those the
\* constructor needs).
C4_ResolutionSequence ==
    pout.op = "construct" =>
        /\ (NoModule /\ pout.name \notin DOMAIN pout.reg0 /\ pout.name \notin DOMAIN ClosureAtCall)
              => (pout.err = "RuntimeError" /\ pout.name \notin DOMAIN registry.map)
        /\ (pout.module # NoneV /\ pout.module.s \in Modules
              /\ \E c \in Members(pout.module.s, pout.name) :
                     IsPluginSubclass(c, pout.root) /\ signature_required(c) \subseteq DOMAIN pout.input.m)
              => pout.err = "none"
        /\ NoModule =>
              \A h \in resolved :
                  (h[1] = pout.root /\ h[2] = pout.name /\ IsPluginSubclass(h[3], pout.root)
                     /\ signature_required(h[3]) \subseteq DOMAIN pout.input.m)
                      => (pout.err = "none" /\ pout.ret = h[3])

\* C5.  Resolution under a root returns only types reachable from it:
\* get_class and lookup on root R return a subclass of R or fail.
C5_OnlySubclassesOfRoot ==
    (pout.op \in {"get_class", "lookup"} /\ pout.err = "none" /\ pout.ret # "None")
        => IsPluginSubclass(pout.ret, pout.root)

\* C6.  The registry is scoped per root: a name cached for a type that is not
\* reachable from root B, and that B's own subclasses do not define, does not
\* resolve under B with no module (RuntimeError).
C6_RegistryPerRoot ==
    (/\ pout.op \in {"lookup", "construct"}
     /\ NoModule
     /\ pout.name \in DOMAIN pout.reg0
     /\ ~IsPluginSubclass(pout.reg0[pout.name], pout.root)
     /\ pout.name \notin DOMAIN ClosureAtCall)
        => pout.err = "RuntimeError"

\* C7.  The registry is append-only and stable: once it maps a name to a
\* type, every later state maps the name to that type.
C7_RegistryStable ==
    [][\A n \in DOMAIN registry.map :
          n \in DOMAIN registry'.map /\ registry'.map[n] = registry.map[n]]_vars

\* C15.  Every failure a plugin resolution call raises (get_class, lookup,
\* construct; a failed dynamic module load included) is preceded in the same
\* call by an error record that carries the call site.
C15_FailuresAreLogged ==
    (pout.op # "init" /\ pout.err # "none") => \E i \in 1..Len(pout.log) : pout.log[i]

\* get_required_arguments_for_init's "required arguments ... are not
\* included" RuntimeError, the missing-required-arguments failure
MissingRequiredArguments == "RuntimeError"

\* C18.  construct(name, kwargs), the type being resolved, fails with the
\* missing-required-arguments error whenever the keywords supplied do not
\* cover the required constructor parameters of the type (the union over the
\* type and its ancestry), and constructs the instance otherwise.
C18_ConstructChecksRequired ==
    (pout.op = "construct" /\ pout.ret # "None")
        => IF required_parameter_for_class_init(pout.ret) \subseteq DOMAIN pout.input.m
           THEN pout.err = "none"
           ELSE pout.err = MissingRequiredArguments

\* PluginBase.parse's "does not have a function named 'from_dict'"
\* RuntimeError, the unsupported-hydration failure
UnsupportedHydration == "RuntimeError"

\* C19.  parse(name, raw), the type being resolved: when the type supports
\* decode, an instance is constructed with no keyword argument and its full
\* decode is run with raw; when it does not, the call fails with the
\* unsupported-hydration error and no instance is constructed.
C19_ParseHydrates ==
    (pout.op = "parse" /\ pout.ret # "None")
        => IF has_from_dict(pout.ret)
           THEN signature_required(pout.ret) = {}
                  => (pout.err = "none" /\ pout.built /\ pout.decoded = pout.input)
           ELSE pout.err = UnsupportedHydration /\ ~pout.built

C19_Witness ==
    /\ pout.op = "parse" /\ pout.root = "RootA" /\ pout.name = "Foo"
    /\ pout.ret = "pkg.mod.Foo" /\ pout.err = "none"
    /\ pout.built /\ pout.decoded = Dict(One("version", StrV("v1")))

\* The "Unable to extract plugin ..." / "has not been assigned"
\* RuntimeError, the missing-plugin-descriptor failure
MissingPluginDescriptor == "RuntimeError"

\* The call declares a module field
ModuleDeclared == Keywords(pout.root, pout.dflt)[2] # "None"

\* The descriptor holds no value for the field: no key or attribute, or an
\* attribute whose presence query answers False
Lacks(state) == state \in {"absent", "unassigned"}

\* The descriptor holds a value for the field, on its type when an object
Holds(state) == state \in {"assigned", "plain"}

\* C20.  Descriptor extraction, the root declaring a type-name field: for a
\* map and for an object alike it fails with the missing-plugin-descriptor
\* error whenever the descriptor lacks the type-name field or a declared
\* module field; when it holds both it yields the type name and the module
\* from those fields, the module being None when no module field is
\* declared.
C20_DescriptorExtraction ==
    (pout.op = "extract" /\ Keywords(pout.root, pout.dflt)[1] # "None")
        => /\ (Lacks(pout.input.tf) \/ (ModuleDeclared /\ Lacks(pout.input.mf)))
                 => pout.err = MissingPluginDescriptor
           /\ (Holds(pout.input.tf) /\ (ModuleDeclared => Holds(pout.input.mf)))
                 => /\ pout.err = "none"
                    /\ pout.cls = TypeNameValue
                    /\ pout.mod = IF ModuleDeclared THEN ModuleValue ELSE NoneV

\* lookup's "Subclass [...] is not registered" RuntimeError, the
\* unresolved-plugin failure
UnresolvedPlugin == "RuntimeError"

\* The dynamic load of the call fails: the module cannot be imported, or it
\* has no member of the name
LoadFails ==
    /\ pout.module # NoneV
    /\ (pout.module.s \notin Modules \/ Members(pout.module.s, pout.name) = {})

\* C21.  When the name is neither in the registry nor in the root's subclass
\* closure and a module path is known, a failed dynamic load (the module
\* cannot be loaded, or has no member of the name) makes resolution fail with
\* the unresolved-plugin error, the error of resolution with no module path,
\* and leaves the registry unchanged.
C21_FailedLoadIsUnresolved ==
    (/\ pout.op \in {"lookup", "construct"}
     /\ pout.name \notin DOMAIN pout.reg0
     /\ pout.name \notin DOMAIN ClosureAtCall
     /\ LoadFails)
        => (pout.err = UnresolvedPlugin /\ registry.map = pout.reg0)

\* The root's subclass closure, by name, when the call has ended
ClosureAfterCall == get_subclass_map(pout.root, EmptyMap, loaded)

\* C25.  Resolution step 2 merges unconditionally: after any resolution
\* that misses the registry, whether or not the name asked for is found, the
\* registry holds every type of the root's current subclass closure under its
\* name.
C25_MergeUnconditional ==
    (pout.op \in {"get_class", "lookup", "construct", "parse"} /\ pout.name \notin DOMAIN pout.reg0)
        => \A n \in DOMAIN ClosureAfterCall :
              n \in DOMAIN registry.map /\ registry.map[n] = ClosureAfterCall[n]

\* ------------------------------------------------------------------------
\* Properties of concurrent resolution (checked under SpecRace)
\* ------------------------------------------------------------------------
\* What thread p's call returns or raises when no other thread runs
Alone(p) ==
    get_class(RaceRoot, callers[p].name, callers[p].module, NoneV,
              [has |-> FALSE, map |-> EmptyMap], <<>>)

\* The registry after the two calls have run one after the other
AfterFirst == Alone(1)
AfterBoth ==
    get_class(RaceRoot, callers[2].name, callers[2].module, NoneV, AfterFirst.reg, AfterFirst.loaded)

\* C24.  Concurrent resolution without a mutex is safe: for two threads in
\* get_class on one root, under every interleaving of its steps, each thread
\* receives what it would receive running alone, every registry entry a
\* thread has written stays in the registry bound to the same type, and once
\* both have returned the registry is the one that running them one after
\* the other leaves.
C24_ConcurrentResolutionSafe ==
    /\ \A p \in Threads :
          callers[p].pc = "done" => (callers[p].ret = Alone(p).v /\ callers[p].err = Alone(p).err)
    /\ \A p \in Threads : \A e \in callers[p].wrote :
          e[1] \in DOMAIN registry.map /\ registry.map[e[1]] = e[2]
    /\ (\A p \in Threads : callers[p].pc = "done") => registry.map = AfterBoth.reg.map

====
